---- MODULE Spec2Model ----
(***************************************************************************)
(* A model of cosmotype: the MySQL driver's transaction and query routing  *)
(* (packages/mysql/src/index.ts), the portable query evaluator             *)
(* (packages/core/src/query.ts) and the MongoDB filter lowering            *)
(* (packages/mongo/src/builder.ts).                                        *)
(***************************************************************************)
EXTENDS Integers, Sequences, FiniteSets, TLC

(***************************************************************************)
(* Bounds of the model.                                                    *)
(***************************************************************************)
NumConns == 2       \* connections the pool owns
MaxCalls == 3       \* calls of the driver: withTransaction and statements together
MaxMigrations == 2  \* migration callbacks registered on the table

Conns == 1..NumConns
NoConn == 0
Txs == 1..MaxCalls  \* the withTransaction calls
Root == 0           \* the unscoped driver; the proxy of transaction t is t

VARIABLES
  session,            \* MySQLDriver.session of the unscoped driver object
  multipleStatements, \* config.multipleStatements ?? true
  free,               \* the pool's free connections, oldest first
  poolq,              \* requests waiting for a pool connection (FIFO)
  cmdq,               \* per connection: the commands enqueued on it, in order
  inTx,               \* per connection: a transaction is open on the server
  pending,            \* per connection: uncommitted mutations of its transaction
  committed,          \* mutations visible to every connection
  seen,               \* mutations some statement of the unscoped driver has read
  pc,                 \* per withTransaction call: where it is
  txdrv,              \* per call: the driver it was called on
  txconn,             \* per call: the connection getConnection handed over
  beginOk,            \* per call: beginTransaction reported no error
  fnres,              \* per call: how the callback's promise settled
  promise,            \* per call: the promise withTransaction returned
  commits, rollbacks, releases,  \* per call: commit/rollback/release calls
  issued,             \* every statement issued so far: its driver and operation
  sent,               \* every statement sent: on which connection and how
  queryTasks,         \* MySQLDriver._queryTasks
  ticks,              \* process.nextTick callbacks scheduled by queue()
  batches,            \* the task lists _flushTasks has sent, in order
  settled             \* the resolve and reject calls on queued tasks, in order

txvars == <<session, multipleStatements, free, poolq, cmdq, inTx, pending,
            committed, seen, pc, txdrv, txconn, beginOk, fnres, promise,
            commits, rollbacks, releases, issued, sent, queryTasks,
            ticks, batches, settled>>

VARIABLES
  curRow,             \* the record a query is applied to
  curQuery,           \* the query, as the list of its entries
  postTable,          \* the rows of the child table `post`, by id
  verdict,            \* what executeQuery(row, query) returned
  fieldVerdict,       \* what executeFieldQuery returned for the query's field
  curPlan,            \* what Builder.query made of the query
  got,                \* whether database.get returns row for a relation query
  visited,            \* the sub-queries a top-level $and or $or evaluated
  fieldVisited        \* the field queries a field-level $and or $or evaluated

qvars == <<curRow, curQuery, postTable, verdict, fieldVerdict, curPlan, got,
           visited, fieldVisited>>

VARIABLES
  relation,           \* the relation whose mutations are run
  tables,             \* the rows of user, post and the association table
  before,             \* the tables before the last mutation
  lastMut             \* the last mutation: its parent row, field and payload

rvars == <<relation, tables, before, lastMut>>

VARIABLES
  fields,             \* Model.fields
  primary,            \* Model.primary, a key or a list of keys
  autoInc,            \* Model.autoInc
  unique,             \* Model.unique, each index the list of its keys
  threw,              \* some call of extend threw
  extended,           \* extend was called
  declared,           \* the source that each field was last declared with
  outcome             \* the last call of create or of parse(format(..))

mvars == <<fields, primary, autoInc, unique, threw, extended, declared, outcome>>

VARIABLES
  columns,            \* the columns prepare read from information_schema
  migrations,         \* Model.migrations: per callback the fields it governs
  mpc,                \* per migration callback: where Driver.migrate is with it
  dropKeys,           \* prepare's dropKeys
  reported,           \* the callbacks whose error went to the error hook
  finalized,          \* calls of the finalize hook
  dropStmt            \* the columns of the ALTER TABLE .. DROP that finalize sent

gvars == <<columns, migrations, mpc, dropKeys, reported, finalized, dropStmt>>

VARIABLES
  evalExpr,           \* Builder.evalExpr: the node under lowering
  version,            \* MongoDriver.version
  emitted,            \* what the operator of the node returned
  computed,           \* what the server makes of the emitted expression
  scope,              \* Builder.tables, joinTables and refTables
  refArg,             \* the argument of $: [ref, path]
  resolved            \* what evalOperators.$ returned

evars == <<evalExpr, version, emitted, computed, scope, refArg, resolved>>

vars == <<txvars, qvars, rvars, mvars, gvars, evars>>

(***************************************************************************)
(* The driver's operations and the path each takes to the server.          *)
(***************************************************************************)
Ops == {"get", "eval", "set", "remove", "create", "upsert"}

\* get and eval send through queue(); the mutations call query() directly
UsesQueue(op) == op \in {"get", "eval"}

IsMutation(op) == op \in {"set", "remove", "create", "upsert"}

\* this.session read through driver d: the proxy answers conn, the target its field
SessionOf_NoProxy(d) == session

SessionOf(d) == IF d = Root THEN session ELSE txconn[d]

\* connections a transaction has acquired and not yet released
HeldConns ==
  {txconn[t] : t \in {u \in Txs : pc[u] \in {"begin", "running", "awaitStmt", "awaitTx"}}}

\* the calls made so far
Calls == Len(issued) + Cardinality({t \in Txs : pc[t] # "idle"})

Cmd(k, d, ids, rel) == [k |-> k, tx |-> d, ids |-> ids, rel |-> rel]

SentOn(ids, c, via, batched) ==
  {[id |-> ids[i], conn |-> c, via |-> via, batched |-> batched, held |-> HeldConns] :
     i \in 1..Len(ids)}

\* MySQLDriver.query: (this.session ?? this.pool).query(sql, cb)
Query(d, ids, batched) ==
  IF SessionOf(d) # NoConn
  THEN /\ cmdq' = [cmdq EXCEPT ![SessionOf(d)] = Append(@, Cmd("stmt", d, ids, FALSE))]
       /\ sent' = sent \cup SentOn(ids, SessionOf(d), "session", batched)
       /\ poolq' = poolq
  ELSE /\ poolq' = Append(poolq, [k |-> "query", tx |-> d, ids |-> ids, batched |-> batched])
       /\ UNCHANGED <<cmdq, sent>>

\* MySQLDriver.queue: straight to query() inside a session, else batched
Queue(d, id) ==
  IF SessionOf(d) # NoConn \/ ~multipleStatements
  THEN /\ Query(d, <<id>>, FALSE)
       /\ UNCHANGED <<queryTasks, ticks>>
  ELSE /\ queryTasks' = Append(queryTasks, id)
       /\ ticks' = ticks + 1
       /\ UNCHANGED <<cmdq, sent, poolq>>

\* one driver operation called on driver d
Issue(d, op) ==
  /\ issued' = Append(issued, [drv |-> d, mut |-> IsMutation(op)])
  /\ IF UsesQueue(op)
     THEN Queue(d, Len(issued) + 1)
     ELSE /\ Query(d, <<Len(issued) + 1>>, FALSE)
          /\ UNCHANGED <<queryTasks, ticks>>

(***************************************************************************)
(* The pool and the connections (the mysql library, as the driver uses it).*)
(***************************************************************************)
\* the ids of a sequence of statements
IdsOf(ids) == {ids[i] : i \in 1..Len(ids)}

\* A pool request at the head of the queue is served by the oldest free connection.
\* Handing a connection over is I/O (the pool pings it first).
PoolGrant ==
  /\ ticks = 0
  /\ poolq # <<>>
  /\ free # <<>>
  /\ LET req == Head(poolq)
         c == Head(free) IN
       /\ poolq' = Tail(poolq)
       /\ free' = Tail(free)
       /\ IF req.k = "getconn"
          THEN \* getConnection's callback, err absent: build the proxy, begin
               /\ txconn' = [txconn EXCEPT ![req.tx] = c]
               /\ cmdq' = [cmdq EXCEPT ![c] = Append(@, Cmd("begin", req.tx, <<>>, FALSE))]
               /\ pc' = [pc EXCEPT ![req.tx] = "begin"]
               /\ sent' = sent
          ELSE \* pool.query: run on the connection, release it afterwards
               /\ cmdq' = [cmdq EXCEPT ![c] = Append(@, Cmd("stmt", req.tx, req.ids, TRUE))]
               /\ sent' = sent \cup SentOn(req.ids, c, "pool", req.batched)
               /\ UNCHANGED <<txconn, pc>>
  /\ UNCHANGED <<session, multipleStatements, inTx, pending, committed, seen,
                 txdrv, beginOk, fnres, promise, commits, rollbacks, releases,
                 issued, queryTasks, ticks>>
  /\ UNCHANGED <<batches, settled>>
  /\ UNCHANGED <<qvars, rvars, mvars, gvars, evars>>

\* getConnection's callback with err: a warning is logged and nothing else happens
GetConnectionErr ==
  /\ ticks = 0
  /\ poolq # <<>>
  /\ Head(poolq).k = "getconn"
  /\ poolq' = Tail(poolq)
  /\ pc' = [pc EXCEPT ![Head(poolq).tx] = "hung"]
  /\ UNCHANGED <<session, multipleStatements, free, cmdq, inTx, pending, committed,
                 seen, txdrv, txconn, beginOk, fnres, promise, commits, rollbacks,
                 releases, issued, sent, queryTasks, ticks>>
  /\ UNCHANGED <<batches, settled>>
  /\ UNCHANGED <<qvars, rvars, mvars, gvars, evars>>

\* the caller of a nested withTransaction goes on once its promise settles
Resume(t) ==
  [u \in Txs |-> IF u = t THEN "done"
                 ELSE IF u = txdrv[t] /\ pc[u] = "awaitTx" THEN "running"
                 ELSE pc[u]]

\* the callback of conn.beginTransaction: its err argument is not looked at
ExecBegin(c, t) ==
  \E ok \in BOOLEAN :
    /\ inTx' = [inTx EXCEPT ![c] = ok]
    /\ beginOk' = [beginOk EXCEPT ![t] = ok]
    /\ pc' = [pc EXCEPT ![t] = "running"]
    /\ UNCHANGED <<free, pending, committed, seen, promise, settled>>

\* if (tasks.length === 1) results = [results]
Wrap_Never(tasks, results) == results

Wrap(tasks, results) ==
  IF Len(tasks) = 1 THEN [t |-> "list", items |-> <<results>>] ELSE results

\* _flushTasks after its await: the resolve or reject call on each task of the
\* batch, in order.  The server answers one statement with its result and
\* several with the list of their results, in the order of the statements.
FlushSettle(tasks, ok) ==
  LET Res(id) == [t |-> "result", of |-> id]
      answer == IF Len(tasks) = 1 THEN Res(tasks[1])
                ELSE [t |-> "list", items |-> [i \in 1..Len(tasks) |-> Res(tasks[i])]]
      results == Wrap(tasks, answer)
      At(i) == IF results.t = "list" /\ i \in 1..Len(results.items)
               THEN results.items[i] ELSE [t |-> "undefined"]
  IN [i \in 1..Len(tasks) |->
        IF ok THEN [id |-> tasks[i], how |-> "resolve", val |-> At(i)]
        ELSE [id |-> tasks[i], how |-> "reject", val |-> [t |-> "error"]]]

\* a statement (or a batch) runs on connection c; the query of a batch may fail
ExecStmt(c, cmd) ==
  LET muts == {id \in IdsOf(cmd.ids) : issued[id].mut}
      rootRead == \E id \in IdsOf(cmd.ids) : issued[id].drv = Root /\ ~issued[id].mut
      waiting == {issued[id].drv : id \in IdsOf(cmd.ids)} \ {Root}
  IN
  /\ pending' = IF inTx[c] THEN [pending EXCEPT ![c] = @ \cup muts] ELSE pending
  /\ committed' = IF ~inTx[c] THEN committed \cup muts ELSE committed
  /\ seen' = IF rootRead THEN seen \cup committed \cup pending[c] ELSE seen
  /\ free' = IF cmd.rel THEN Append(free, c) ELSE free
  /\ pc' = [u \in Txs |-> IF u \in waiting /\ pc[u] = "awaitStmt" THEN "running" ELSE pc[u]]
  /\ IF \E b \in 1..Len(batches) : batches[b] = cmd.ids
     THEN \E ok \in BOOLEAN : settled' = settled \o FlushSettle(cmd.ids, ok)
     ELSE settled' = settled
  /\ UNCHANGED <<inTx, beginOk, promise>>

\* the callback of conn.commit: () => resolve(), whatever commit reported
ExecCommit(c, t) ==
  \E ok \in BOOLEAN :
    /\ committed' = IF ok THEN committed \cup pending[c] ELSE committed
    /\ pending' = [pending EXCEPT ![c] = {}]
    /\ inTx' = [inTx EXCEPT ![c] = FALSE]
    /\ promise' = [promise EXCEPT ![t] = "resolved"]
    /\ pc' = Resume(t)
    /\ UNCHANGED <<free, seen, beginOk, settled>>

\* the callback of conn.rollback: () => reject(e)
ExecRollback(c, t) ==
  /\ pending' = [pending EXCEPT ![c] = {}]
  /\ inTx' = [inTx EXCEPT ![c] = FALSE]
  /\ promise' = [promise EXCEPT ![t] = "rejected"]
  /\ pc' = Resume(t)
  /\ UNCHANGED <<free, committed, seen, beginOk, settled>>

\* the server answers the oldest command of connection c.  An answer is I/O:
\* it is delivered after the nextTick queue has run, so after every scheduled flush.
ConnExec(c) ==
  /\ ticks = 0
  /\ cmdq[c] # <<>>
  /\ LET cmd == Head(cmdq[c]) IN
     /\ cmdq' = [cmdq EXCEPT ![c] = Tail(@)]
     /\ CASE cmd.k = "begin" -> ExecBegin(c, cmd.tx)
          [] cmd.k = "stmt" -> ExecStmt(c, cmd)
          [] cmd.k = "commit" -> ExecCommit(c, cmd.tx)
          [] cmd.k = "rollback" -> ExecRollback(c, cmd.tx)
  /\ UNCHANGED <<session, multipleStatements, poolq, txdrv, txconn, fnres, commits,
                 rollbacks, releases, issued, sent, queryTasks, ticks>>
  /\ UNCHANGED batches
  /\ UNCHANGED <<qvars, rvars, mvars, gvars, evars>>

(***************************************************************************)
(* MySQLDriver.withTransaction and the callback it runs.                   *)
(***************************************************************************)
\* withTransaction called on driver d: this.pool.getConnection(...)
WithTransaction(t, d) ==
  /\ pc[t] = "idle"
  /\ Calls < MaxCalls
  /\ \A u \in Txs : u < t => pc[u] # "idle"
  /\ d = Root \/ (d \in Txs /\ pc[d] = "running")
  /\ txdrv' = [txdrv EXCEPT ![t] = d]
  /\ poolq' = Append(poolq, [k |-> "getconn", tx |-> t, ids |-> <<>>, batched |-> FALSE])
  /\ pc' = [u \in Txs |-> IF u = t THEN "getconn"
                          ELSE IF u = d THEN "awaitTx" ELSE pc[u]]
  /\ UNCHANGED <<session, multipleStatements, free, cmdq, inTx, pending, committed,
                 seen, txconn, beginOk, fnres, promise, commits, rollbacks, releases,
                 issued, sent, queryTasks, ticks>>
  /\ UNCHANGED <<batches, settled>>
  /\ UNCHANGED <<qvars, rvars, mvars, gvars, evars>>

\* the callback calls get/eval/set/remove/create/upsert on the scoped driver
FnStmt(t, op) ==
  /\ pc[t] = "running"
  /\ Calls < MaxCalls
  /\ Issue(t, op)
  /\ pc' = [pc EXCEPT ![t] = "awaitStmt"]
  /\ UNCHANGED <<session, multipleStatements, free, inTx, pending, committed, seen,
                 txdrv, txconn, beginOk, fnres, promise, commits, rollbacks,
                 releases>>
  /\ UNCHANGED <<batches, settled>>
  /\ UNCHANGED <<qvars, rvars, mvars, gvars, evars>>

\* .then(() => conn.commit(...), (e) => conn.rollback(...))
SettleCmd_AlwaysCommit(ok) == "commit"

SettleCmd(ok) == IF ok THEN "commit" ELSE "rollback"

\* .finally(() => conn.release()): how often release is called after the callback
\* fulfilled (ok) or rejected
ReleaseCalls_OnlyFulfilled(ok) == IF ok THEN 1 ELSE 0

ReleaseCalls(ok) == 1

\* The callback's promise settles: commit or rollback is issued on conn, and the
\* promise job that follows it releases conn; no answer of the server (I/O) can
\* come between the two, so they are one step.
FnReturn(t, ok) ==
  /\ pc[t] = "running"
  /\ fnres' = [fnres EXCEPT ![t] = IF ok THEN "fulfilled" ELSE "rejected"]
  /\ cmdq' = [cmdq EXCEPT ![txconn[t]] = Append(@, Cmd(SettleCmd(ok), t, <<>>, FALSE))]
  /\ commits' = [commits EXCEPT ![t] = IF SettleCmd(ok) = "commit" THEN @ + 1 ELSE @]
  /\ rollbacks' = [rollbacks EXCEPT ![t] = IF SettleCmd(ok) = "rollback" THEN @ + 1 ELSE @]
  /\ releases' = [releases EXCEPT ![t] = @ + ReleaseCalls(ok)]
  /\ free' = IF ReleaseCalls(ok) > 0 THEN Append(free, txconn[t]) ELSE free
  /\ pc' = [pc EXCEPT ![t] = "settling"]
  /\ UNCHANGED <<session, multipleStatements, poolq, inTx, pending, committed,
                 seen, txdrv, txconn, beginOk, promise, issued, sent,
                 queryTasks, ticks>>
  /\ UNCHANGED <<batches, settled>>
  /\ UNCHANGED <<qvars, rvars, mvars, gvars, evars>>

(***************************************************************************)
(* The unscoped driver: statements outside any transaction.                *)
(***************************************************************************)
OutStmt(op) ==
  /\ Calls < MaxCalls
  /\ Issue(Root, op)
  /\ UNCHANGED <<session, multipleStatements, free, inTx, pending, committed, seen,
                 pc, txdrv, txconn, beginOk, fnres, promise, commits, rollbacks,
                 releases>>
  /\ UNCHANGED <<batches, settled>>
  /\ UNCHANGED <<qvars, rvars, mvars, gvars, evars>>

\* MySQLDriver._flushTasks, run by process.nextTick
FlushTasks ==
  /\ ticks > 0
  /\ ticks' = ticks - 1
  /\ IF queryTasks = <<>>
     THEN UNCHANGED <<queryTasks, cmdq, sent, poolq>>
     ELSE /\ queryTasks' = <<>>
          /\ Query(Root, queryTasks, TRUE)
  /\ batches' = IF queryTasks = <<>> THEN batches ELSE Append(batches, queryTasks)
  /\ UNCHANGED <<session, multipleStatements, free, inTx, pending, committed, seen,
                 pc, txdrv, txconn, beginOk, fnres, promise, commits, rollbacks,
                 releases, issued>>
  /\ UNCHANGED settled
  /\ UNCHANGED <<qvars, rvars, mvars, gvars, evars>>

TxInit ==
  /\ session = NoConn
  /\ multipleStatements \in BOOLEAN
  /\ free = [c \in Conns |-> c]
  /\ poolq = <<>>
  /\ cmdq = [c \in Conns |-> <<>>]
  /\ inTx = [c \in Conns |-> FALSE]
  /\ pending = [c \in Conns |-> {}]
  /\ committed = {}
  /\ seen = {}
  /\ pc = [t \in Txs |-> "idle"]
  /\ txdrv = [t \in Txs |-> Root]
  /\ txconn = [t \in Txs |-> NoConn]
  /\ beginOk = [t \in Txs |-> FALSE]
  /\ fnres = [t \in Txs |-> "none"]
  /\ promise = [t \in Txs |-> "pending"]
  /\ commits = [t \in Txs |-> 0]
  /\ rollbacks = [t \in Txs |-> 0]
  /\ releases = [t \in Txs |-> 0]
  /\ issued = <<>>
  /\ sent = {}
  /\ queryTasks = <<>>
  /\ ticks = 0
  /\ batches = <<>>
  /\ settled = <<>>

TxNext ==
  \/ \E t \in Txs, d \in {Root} \cup Txs : WithTransaction(t, d)
  \/ PoolGrant
  \/ GetConnectionErr
  \/ \E c \in Conns : ConnExec(c)
  \/ \E t \in Txs, op \in Ops : FnStmt(t, op)
  \/ \E t \in Txs, ok \in BOOLEAN : FnReturn(t, ok)
  \/ \E op \in Ops : OutStmt(op)
  \/ FlushTasks

\* the bounds and the empty tables of the relation resolver's mutations
MaxUsers == 3       \* keys of the user table
MaxChildren == 2    \* keys of the post table and of the tag table

UserIds == 1..MaxUsers
ChildIds == 1..MaxChildren

\* the tables: users[u] is -1 when user u has no row, else the key of its
\* successor (0 for null); assoc[p, t] counts the rows of post p and tag t
NoPost == [exists |-> FALSE, author |-> 0, score |-> 0]
EmptyTables ==
  [users |-> [u \in UserIds |-> -1],
   posts |-> [p \in ChildIds |-> NoPost],
   assoc |-> [pr \in ChildIds \X ChildIds |-> 0]]

\* the directives of one relation field in a payload: -1 when absent, else the
\* rows they address, 0 for {} and i for {id: i}; create names the key of the
\* row that $create or $upsert writes
NoPayload == [disconnect |-> -1, remove |-> -1, set |-> -1, create |-> -1, connect |-> -1]

\* no mutation has run
RIdle ==
  /\ relation = "none"
  /\ tables = EmptyTables
  /\ before = EmptyTables
  /\ lastMut = [op |-> "none", field |-> "none", parent |-> 0, pl |-> NoPayload]

\* the field names of the model under extension; `b.c` is a dotted name
FieldNames == {"id", "a", "b.c"}

\* this.fields[key] of a key that no extend has declared
NoField == [type |-> "none", initial |-> [t |-> "undefined"], deprecated |-> FALSE]

\* new Model(name): no fields, primary 'id', autoInc false, unique []
MIdle ==
  /\ fields = [k \in FieldNames |-> NoField]
  /\ primary = [t |-> "string", keys |-> <<"id">>]
  /\ autoInc = FALSE
  /\ unique = {}
  /\ threw = FALSE
  /\ extended = FALSE
  /\ declared = [k \in FieldNames |-> [form |-> "none", type |-> "none"]]
  /\ outcome = [op |-> "none", input |-> [t |-> "undefined"], output |-> [t |-> "undefined"]]

\* prepare has not run
GIdle ==
  /\ columns = {}
  /\ migrations = <<>>
  /\ mpc = <<>>
  /\ dropKeys = <<>>
  /\ reported = {}
  /\ finalized = 0
  /\ dropStmt = <<>>

\* no expression is under lowering
EIdle ==
  /\ evalExpr = [op |-> "none"]
  /\ version = 0
  /\ emitted = [k |-> "none"]
  /\ computed = [t |-> "none"]
  /\ scope = [tables |-> {}, joinTables |-> <<>>, refTables |-> {}]
  /\ refArg = <<>>
  /\ resolved = [k |-> "none"]

\* no query is under evaluation while the driver runs transactions
QIdle ==
  /\ curRow = [t |-> "undefined"]
  /\ curQuery = <<>>
  /\ postTable = <<>>
  /\ verdict = "none"
  /\ fieldVerdict = "none"
  /\ curPlan = [t |-> "none"]
  /\ got = "none"
  /\ visited = <<>>
  /\ fieldVisited = <<>>

Init == TxInit /\ QIdle /\ RIdle /\ MIdle /\ GIdle /\ EIdle

Next == TxNext

Spec == Init /\ [][Next]_vars

(***************************************************************************)
(* Values of the query language: JavaScript values as the evaluator sees   *)
(* them.  Strings are numbered in lexicographic order.                     *)
(***************************************************************************)
Undef == [t |-> "undefined"]
Null == [t |-> "null"]
Num(i) == [t |-> "number", n |-> i]
Str(i) == [t |-> "string", n |-> i]
Obj(props) == [t |-> "object", props |-> props]
Arr(items) == [t |-> "array", items |-> items]
Bool(b) == [t |-> "boolean", b |-> b]
Thrown == [t |-> "throw"]

\* the strings of the model, in lexicographic order
StrText == <<"a", "ab", "b">>

\* cosmokit isNullable
isNullable(v) == v.t \in {"undefined", "null"}

\* utils.isComparable: string, number, boolean, bigint or Date
isComparable(v) == v.t \in {"number", "string"}

\* a regular expression is modelled by the literal text it searches for
Regex(i) == [t |-> "regexp", n |-> i]

\* RegExp.prototype.test(data): data is converted to a string first; "null",
\* "undefined" and the digits contain neither "a" nor "b"
RegexTest(re, data) ==
  /\ data.t = "string"
  /\ \/ re.n = data.n
     \/ StrText[data.n] = "ab"

\* x > y on primitives: numbers by value, strings by order, mixed is false (NaN)
JsGt(x, y) == x.t = y.t /\ x.t \in {"number", "string"} /\ x.n > y.n

\* Array.prototype.includes
Includes(arr, v) == \E i \in 1..Len(arr) : arr[i] = v

(***************************************************************************)
(* The portable evaluator, packages/core/src/query.ts.  A result is        *)
(* "true", "false" or "throw" (a TypeError raised by data.valueOf()).      *)
(***************************************************************************)
B(b) == IF b THEN "true" ELSE "false"

Neg(r) == IF r = "throw" THEN "throw" ELSE B(r = "false")

\* the keys of queryOperators
QueryOperatorKeys ==
  {"$or", "$and", "$not", "$exists", "$eq", "$ne", "$gt", "$gte", "$lt", "$lte",
   "$in", "$nin", "$regex"}

\* queryOperators.$exists
OpExists(query, data) == B(query.b # isNullable(data))

\* queryOperators.$in
OpIn_NullMatchesEmpty(query, data) ==
  B(Includes(query.items, data) \/ (Len(query.items) = 0 /\ isNullable(data)))

OpIn(query, data) == B(Includes(query.items, data))

\* queryOperators.$nin
OpNin(query, data) == B(~Includes(query.items, data))

\* queryOperators.$eq ... $lte: data.valueOf() throws on null and undefined
OpCompare(op, query, data) ==
  IF isNullable(data) THEN "throw"
  ELSE CASE op = "$eq" -> B(data = query)
         [] op = "$ne" -> B(data # query)
         [] op = "$gt" -> B(JsGt(data, query))
         [] op = "$gte" -> B(JsGt(data, query) \/ (data.t = query.t /\ data = query))
         [] op = "$lt" -> B(JsGt(query, data))
         [] op = "$lte" -> B(JsGt(query, data) \/ (data.t = query.t /\ data = query))

RECURSIVE executeFieldQuery(_, _)

\* `prev && f(q)` leaves f(q) unevaluated once prev is false, `prev || f(q)`
\* once prev is true
Skips_Never(key, prev) == FALSE

Skips(key, prev) ==
  \/ key = "$and" /\ prev = "false"
  \/ key = "$or" /\ prev = "true"

\* queryOperators.$or: reduce((prev, q) => prev || executeFieldQuery(q, data), false)
RECURSIVE OrReduce(_, _, _)
OrReduce(qs, data, prev) ==
  IF qs = <<>> THEN prev
  ELSE IF Skips("$or", prev) THEN OrReduce(Tail(qs), data, prev)
  ELSE LET r == executeFieldQuery(Head(qs), data) IN
       IF r = "throw" THEN "throw" ELSE OrReduce(Tail(qs), data, r)

\* queryOperators.$and: reduce((prev, q) => prev && executeFieldQuery(q, data), true)
RECURSIVE AndReduce(_, _, _)
AndReduce(qs, data, prev) ==
  IF qs = <<>> THEN prev
  ELSE IF Skips("$and", prev) THEN AndReduce(Tail(qs), data, prev)
  ELSE LET r == executeFieldQuery(Head(qs), data) IN
       IF r = "throw" THEN "throw" ELSE AndReduce(Tail(qs), data, r)

\* the positions in the list of $and or $or whose field query the reduce
\* evaluates, from position i on; an evaluation that throws ends the reduce
RECURSIVE FieldVisits(_, _, _, _, _)
FieldVisits(key, qs, data, prev, i) ==
  IF i > Len(qs) THEN <<>>
  ELSE IF Skips(key, prev) THEN FieldVisits(key, qs, data, prev, i + 1)
  ELSE LET r == executeFieldQuery(qs[i], data) IN
       <<i>> \o (IF r = "throw" THEN <<>> ELSE FieldVisits(key, qs, data, r, i + 1))

\* queryOperators[key](query[key], data)
ApplyOperator(op, arg, data) ==
  CASE op = "$or" -> OrReduce(arg.items, data, "false")
    [] op = "$and" -> AndReduce(arg.items, data, "true")
    [] op = "$not" -> Neg(executeFieldQuery(arg, data))
    [] op = "$exists" -> OpExists(arg, data)
    [] op = "$in" -> OpIn(arg, data)
    [] op = "$nin" -> OpNin(arg, data)
    [] op = "$regex" -> B(RegexTest(arg, data))
    [] OTHER -> OpCompare(op, arg, data)

\* the loop of executeFieldQuery over the keys of a field expression: a key
\* that queryOperators does not have is skipped
RECURSIVE ExecOps(_, _)
ExecOps(ops, data) ==
  IF ops = <<>> THEN "true"
  ELSE IF Head(ops).key \in QueryOperatorKeys
       THEN LET r == ApplyOperator(Head(ops).key, Head(ops).val, data) IN
            IF r = "true" THEN ExecOps(Tail(ops), data) ELSE r
       ELSE ExecOps(Tail(ops), data)

\* executeFieldQuery(query, data)
executeFieldQuery(query, data) ==
  CASE query.t = "array" -> B(Includes(query.items, data))
    [] query.t = "regexp" -> B(RegexTest(query, data))
    [] isComparable(query) -> IF isNullable(data) THEN "throw" ELSE B(data = query)
    [] isNullable(query) -> B(isNullable(data))
    [] OTHER -> ExecOps(query.ops, data)

\* a field expression: the operator keys of the object, in property order; the
\* operand of $in, $nin, $and and $or is an array, that of $exists a boolean
Expr(ops) == [t |-> "expr", ops |-> ops]
Op(op, arg) == [key |-> op, val |-> arg]

\* getCell(row, key): key.split('.').reduce((r, k) => r[k], row)
RECURSIVE getCell(_, _)
getCell(r, path) ==
  IF path = <<>> THEN r
  ELSE IF r.t = "throw" \/ isNullable(r) THEN Thrown
  ELSE IF r.t = "object" /\ Head(path) \in DOMAIN r.props
       THEN getCell(r.props[Head(path)], Tail(path))
       ELSE getCell(Undef, Tail(path))

\* executeQuery(data, query): query is the list of its entries, each a logical
\* key with sub-queries or a field path with a field query
RECURSIVE executeQuery(_, _)
RECURSIVE QAndReduce(_, _, _)
QAndReduce(data, qs, prev) ==
  IF qs = <<>> THEN prev
  ELSE IF Skips("$and", B(prev)) THEN QAndReduce(data, Tail(qs), prev)
  ELSE QAndReduce(data, Tail(qs), executeQuery(data, Head(qs)))

RECURSIVE QOrReduce(_, _, _)
QOrReduce(data, qs, prev) ==
  IF qs = <<>> THEN prev
  ELSE IF Skips("$or", B(prev)) THEN QOrReduce(data, Tail(qs), prev)
  ELSE QOrReduce(data, Tail(qs), executeQuery(data, Head(qs)))

\* the initial value of the reduce over the sub-queries of $and and of $or
ReduceInit_AlwaysTrue(key) == TRUE

ReduceInit(key) == key = "$and"

\* one entry of executeQuery's entries.every(...)
ExecEntry(data, e) ==
  CASE e.key = "$and" -> QAndReduce(data, e.val.items, ReduceInit("$and"))
    [] e.key = "$or" -> QOrReduce(data, e.val.items, ReduceInit("$or"))
    [] e.key = "$not" -> ~executeQuery(data, e.val.entries)
    [] OTHER -> LET cell == getCell(data, e.path) IN
                IF cell.t = "throw" THEN FALSE
                ELSE executeFieldQuery(e.val, cell) = "true"

executeQuery(data, query) ==
  \A i \in 1..Len(query) : ExecEntry(data, query[i])

\* the positions in the list of a top-level $and or $or whose sub-query the
\* reduce evaluates, from position i on
RECURSIVE QueryVisits(_, _, _, _, _)
QueryVisits(key, data, qs, prev, i) ==
  IF i > Len(qs) THEN <<>>
  ELSE IF Skips(key, B(prev)) THEN QueryVisits(key, data, qs, prev, i + 1)
  ELSE <<i>> \o QueryVisits(key, data, qs, executeQuery(data, qs[i]), i + 1)

\* a query as the operand of $not, $some, $none and $every
Sub(q) == [t |-> "query", entries |-> q]

\* entries of a query: a field with its field query, $not with a query, $and
\* and $or (in a filter, $nor too) with a list of queries
Field(path, fq) == [key |-> "field", path |-> path, val |-> fq]
Logical(key, q) ==
  [key |-> key, path |-> <<>>,
   val |-> IF key = "$not" THEN Sub(q) ELSE [t |-> "list", items |-> q]]

(***************************************************************************)
(* The MongoDB lowering, packages/mongo/src/builder.ts.  A lowered field   *)
(* query is false (matches nothing), true (no constraint), null or a       *)
(* document of operators; a filter is the list of its entries.             *)
(***************************************************************************)
LFalse == [t |-> "false"]
LTrue == [t |-> "true"]
NoPlan == [t |-> "undefined"]
Cond(ops) == [t |-> "cond", ops |-> ops]
Filter(entries) == [t |-> "filter", entries |-> entries]

\* filter[key] = val: the property is overwritten when the object has it
RECURSIVE SetProp(_, _)
SetProp(entries, e) ==
  IF entries = <<>> THEN <<e>>
  ELSE IF Head(entries).key = e.key /\ Head(entries).path = e.path
       THEN <<e>> \o Tail(entries)
       ELSE <<Head(entries)>> \o SetProp(Tail(entries), e)

\* the result of transformFieldQuery: what it returns and what it pushed on filters
Lowered(r, fs) == [r |-> r, fs |-> fs]

RECURSIVE transformFieldQuery(_, _, _)

\* createFieldFilter(query, key)
createFieldFilter(query, key) ==
  LET lo == transformFieldQuery(query, key, <<>>)
      e1 == IF lo.r.t = "true" THEN <<>> ELSE <<Field(key, lo.r)>>
      e2 == IF lo.fs # <<>> THEN <<Logical("$and", lo.fs)>> ELSE <<>>
  IN IF lo.r.t = "false" THEN LFalse
     ELSE IF e1 \o e2 # <<>> THEN Filter(e1 \o e2)
     ELSE LTrue

\* the $and branch: for (const item of query.$and) ...
RECURSIVE LowerAnd(_, _, _)
LowerAnd(items, key, fs) ==
  IF items = <<>> THEN Lowered(LTrue, fs)
  ELSE LET child == createFieldFilter(Head(items), key) IN
       IF child.t = "false" THEN Lowered(LFalse, fs)
       ELSE LowerAnd(Tail(items), key,
                     IF child.t = "true" THEN fs ELSE Append(fs, child))

\* the $or branch: query.$or.some(item => ...); r is true when some child is
\* always true, fs collects the children pushed on $or before that
RECURSIVE LowerOrSome(_, _, _)
LowerOrSome(items, key, acc) ==
  IF items = <<>> THEN Lowered(LFalse, acc)
  ELSE LET child == createFieldFilter(Head(items), key) IN
       IF child.t = "true" THEN Lowered(LTrue, acc)
       ELSE LowerOrSome(Tail(items), key,
                        IF child.t = "false" THEN acc ELSE Append(acc, child))

\* the loop over the properties of a field expression; result holds the
\* operators copied so far, fs the filters pushed so far
RECURSIVE LowerOps(_, _, _, _)
LowerOps(ops, key, result, fs) ==
  IF ops = <<>>
  THEN Lowered(IF result = <<>> THEN LTrue ELSE Cond(result), fs)
  ELSE LET o == Head(ops) IN
    CASE o.key = "$and" ->
           LET lo == LowerAnd(o.val.items, key, fs) IN
           IF lo.r.t = "false" THEN Lowered(LFalse, lo.fs)
           ELSE LowerOps(Tail(ops), key, result, lo.fs)
      [] o.key = "$or" ->
           IF o.val.items = <<>> THEN Lowered(LFalse, fs)
           ELSE LET lo == LowerOrSome(o.val.items, key, <<>>) IN
                LowerOps(Tail(ops), key, result,
                         IF lo.r.t = "true" THEN fs
                         ELSE Append(fs, Filter(<<Logical("$or", lo.fs)>>)))
      [] o.key = "$not" ->
           LET child == createFieldFilter(o.val, key) IN
           IF child.t = "true" THEN Lowered(LFalse, fs)
           ELSE LowerOps(Tail(ops), key, result,
                         IF child.t = "false" THEN fs
                         ELSE Append(fs, Filter(<<Logical("$nor", <<child>>)>>)))
      [] o.key = "$regex" -> Lowered(Cond(<<Op("$regex", o.val)>>), fs)
      [] o.key = "$exists" ->
           Lowered(IF o.val.b THEN Cond(<<Op("$ne", Null)>>) ELSE Null, fs)
      [] OTHER -> LowerOps(Tail(ops), key, Append(result, o), fs)

\* transformFieldQuery(query, key, filters)
transformFieldQuery(query, key, filters) ==
  CASE isComparable(query) -> Lowered(Cond(<<Op("$eq", query)>>), filters)
    [] query.t = "array" ->
         IF query.items = <<>> THEN Lowered(LFalse, filters)
         ELSE Lowered(Cond(<<Op("$in", query)>>), filters)
    [] query.t = "regexp" -> Lowered(Cond(<<Op("$regex", query)>>), filters)
    [] isNullable(query) -> Lowered(Null, filters)
    [] OTHER -> LowerOps(query.ops, key, <<>>, filters)

\* Builder.query(sel, query): the filter, or NoPlan when nothing can match
RECURSIVE BuilderQuery(_)
RECURSIVE BuilderQueryMap(_)
BuilderQueryMap(qs) ==
  IF qs = <<>> THEN <<>>
  ELSE <<BuilderQuery(Head(qs))>> \o BuilderQueryMap(Tail(qs))

\* filter.$and ||= []
AndOf(entries) ==
  IF \E i \in 1..Len(entries) : entries[i].key = "$and"
  THEN entries[CHOOSE i \in 1..Len(entries) : entries[i].key = "$and"].val.items
  ELSE <<>>

\* the loop of Builder.query over the keys of the query
RECURSIVE BuilderLoop(_, _, _)
BuilderLoop(query, filter, additional) ==
  IF query = <<>>
  THEN IF additional # <<>>
       THEN Filter(SetProp(filter, Logical("$and", AndOf(filter) \o additional)))
       ELSE Filter(filter)
  ELSE LET e == Head(query) IN
    CASE e.key \in {"$and", "$or"} ->
           IF e.val.items # <<>>
           THEN BuilderLoop(Tail(query),
                            SetProp(filter, Logical(e.key, BuilderQueryMap(e.val.items))),
                            additional)
           ELSE IF e.key = "$or" THEN NoPlan
           ELSE BuilderLoop(Tail(query), filter, additional)
      [] e.key = "$not" ->
           LET q == BuilderQuery(e.val.entries) IN
           BuilderLoop(Tail(query),
                       IF q.t = "filter" THEN SetProp(filter, Logical("$nor", <<q>>))
                       ELSE filter,
                       additional)
      [] OTHER ->
           LET lo == transformFieldQuery(e.val, e.path, additional) IN
           IF lo.r.t = "false" THEN NoPlan
           ELSE BuilderLoop(Tail(query),
                            IF lo.r.t = "true" THEN filter
                            ELSE SetProp(filter, Field(e.path, lo.r)),
                            lo.fs)

BuilderQuery(query) == BuilderLoop(query, <<>>, <<>>)

(***************************************************************************)
(* How the MongoDB server reads a filter the Builder emitted.              *)
(***************************************************************************)
\* the value at a dotted path: missing when a step is not an object
RECURSIVE MongoGet(_, _)
MongoGet(r, path) ==
  IF path = <<>> THEN r
  ELSE IF r.t = "object" /\ Head(path) \in DOMAIN r.props
       THEN MongoGet(r.props[Head(path)], Tail(path))
       ELSE Undef

\* {$eq: x}: null matches null and missing
MongoEq(v, x) == IF isNullable(x) THEN isNullable(v) ELSE v = x

\* one operator of a field condition
MongoOp(o, v) ==
  CASE o.key = "$eq" -> MongoEq(v, o.val)
    [] o.key = "$ne" -> ~MongoEq(v, o.val)
    [] o.key = "$gt" -> JsGt(v, o.val)
    [] o.key = "$gte" -> JsGt(v, o.val) \/ (v.t = o.val.t /\ v = o.val)
    [] o.key = "$lt" -> JsGt(o.val, v)
    [] o.key = "$lte" -> JsGt(o.val, v) \/ (v.t = o.val.t /\ v = o.val)
    [] o.key = "$in" -> \E i \in 1..Len(o.val.items) : MongoEq(v, o.val.items[i])
    [] o.key = "$nin" -> ~\E i \in 1..Len(o.val.items) : MongoEq(v, o.val.items[i])
    [] o.key = "$regex" -> RegexTest(o.val, v)

\* a field condition: null, or a document whose operators must all hold
MongoCond(c, v) ==
  IF isNullable(c) THEN isNullable(v)
  ELSE \A i \in 1..Len(c.ops) : MongoOp(c.ops[i], v)

\* MongoError: $and/$or/$nor must be a nonempty array of documents
RECURSIVE MongoValid(_)
MongoValid(f) ==
  /\ f.t = "filter"
  /\ \A i \in 1..Len(f.entries) :
       f.entries[i].key \in {"$and", "$or", "$nor"} =>
         /\ f.entries[i].val.items # <<>>
         /\ \A j \in 1..Len(f.entries[i].val.items) : MongoValid(f.entries[i].val.items[j])

RECURSIVE MongoMatch(_, _)
MongoMatch(f, row) ==
  \A i \in 1..Len(f.entries) :
    LET e == f.entries[i] IN
    CASE e.key = "$and" -> \A j \in 1..Len(e.val.items) : MongoMatch(e.val.items[j], row)
      [] e.key = "$or" -> \E j \in 1..Len(e.val.items) : MongoMatch(e.val.items[j], row)
      [] e.key = "$nor" -> ~\E j \in 1..Len(e.val.items) : MongoMatch(e.val.items[j], row)
      [] OTHER -> MongoCond(e.val, MongoGet(row, e.path))

\* the rows a lowered query selects: none without a plan, none when the server
\* rejects the filter
Selects(plan, row) == plan.t = "filter" /\ MongoValid(plan) /\ MongoMatch(plan, row)

(***************************************************************************)
(* The relation resolver's predicate lowering: $some, $none and $every     *)
(* over the oneToMany relation user.posts (post.author is the foreign key).*)
(***************************************************************************)
\* the row of the child table with id i
PostRow(i) ==
  Obj([id |-> Num(i), author |-> postTable[i].author, score |-> postTable[i].score])

\* select ... from child where fk = parent.pk
ChildSet(parent) ==
  {i \in 1..Len(postTable) : postTable[i].author = parent.props.id}

\* $some(q): EXISTS (select 1 from child where fk = parent.pk and q)
RelSome(parent, q) == \E i \in ChildSet(parent) : executeQuery(PostRow(i), q)

\* $none(q): NOT EXISTS (...)
RelNone(parent, q) == ~RelSome(parent, q)

\* $every(q): NOT EXISTS (select 1 from child where fk = parent.pk and NOT q)
RelEvery_NeedsChild(parent, q) ==
  /\ ChildSet(parent) # {}
  /\ ~\E i \in ChildSet(parent) : ~executeQuery(PostRow(i), q)

RelEvery(parent, q) == ~\E i \in ChildSet(parent) : ~executeQuery(PostRow(i), q)

\* a query with one entry, a relation operator on the field posts
IsRelationQuery(q) ==
  /\ Len(q) = 1
  /\ q[1].key = "field"
  /\ q[1].path = <<"posts">>

\* whether database.get('user', q) returns parent
DatabaseGet(parent, q) ==
  LET o == q[1].val.ops[1] IN
  CASE o.key = "$some" -> RelSome(parent, o.val.entries)
    [] o.key = "$none" -> RelNone(parent, o.val.entries)
    [] o.key = "$every" -> RelEvery(parent, o.val.entries)

(***************************************************************************)
(* The rows and queries the evaluator and the lowering are applied to.     *)
(***************************************************************************)
MaxNum == 2         \* the numbers 1..MaxNum occur as data and as operands
MaxOps == 2         \* operators of one field expression
MaxArgs == 2        \* sub-queries of one $and or $or
MaxPosts == 2       \* rows of the child table

\* all sequences over S of length at most n
SeqsUpTo(S, n) == UNION {[1..k -> S] : k \in 0..n}

Nums == {Num(i) : i \in 1..MaxNum}

\* what a field of a row may hold; undefined stands for a missing field
DataValues == {Undef, Null, Str(1), Str(3)} \cup Nums

\* operands of the comparison operators
Lits == Nums \cup {Str(1)}

\* operands of $in and $nin
ArrLits == {Arr(<<>>)} \cup {Arr(<<l>>) : l \in Lits}

\* one operator of a field expression with its operand
AtomicOps ==
  {Op(o, l) : o \in {"$eq", "$ne", "$gt", "$gte", "$lt", "$lte"}, l \in Lits}
    \cup {Op(o, a) : o \in {"$in", "$nin"}, a \in ArrLits}
    \cup {Op("$exists", Bool(b)) : b \in BOOLEAN}
    \cup {Op("$regex", Regex(1))}

\* the shorthand field queries: a comparable, an array, a regexp, null
Shorthands == Lits \cup ArrLits \cup {Regex(1), Null}

\* an object has each key once
DistinctKeys(ops) ==
  \A i, j \in 1..Len(ops) : ops[i].key = ops[j].key => i = j

\* the operators that are combined in one field expression
MultiOps ==
  {Op(o, Num(1)) : o \in {"$eq", "$ne", "$gt", "$gte", "$lt", "$lte"}}
    \cup {Op("$in", Arr(<<Num(1)>>)), Op("$nin", Arr(<<>>)), Op("$regex", Regex(1))}
    \cup {Op("$exists", Bool(b)) : b \in BOOLEAN}

\* field expressions of one operator, and of up to MaxOps operators in every
\* property order
FieldExprs ==
  {Expr(<<o>>) : o \in AtomicOps}
    \cup {Expr(ops) : ops \in {s \in SeqsUpTo(MultiOps, MaxOps) : Len(s) > 1 /\ DistinctKeys(s)}}

\* the field queries that the lists of $and and $or are made of: some match
\* nothing, some everything
ArgLeaves ==
  {Null, Num(1), Arr(<<>>), Expr(<<>>), Expr(<<Op("$gt", Num(1))>>),
   Expr(<<Op("$exists", Bool(TRUE))>>)}

\* the field queries that $not is applied to
Leaves ==
  ArgLeaves \cup
  {Arr(<<Num(1)>>), Regex(1), Expr(<<Op("$ne", Num(1))>>),
   Expr(<<Op("$nin", Arr(<<>>))>>), Expr(<<Op("$or", Arr(<<>>))>>)}

LogicalOps ==
  {Op("$not", l) : l \in Leaves}
    \cup {Op(k, Arr(s)) : k \in {"$and", "$or"}, s \in SeqsUpTo(ArgLeaves, MaxArgs)}

\* field expressions with a logical operator, alone or next to another operator
LogicalExprs ==
  {Expr(<<lo>>) : lo \in LogicalOps}
    \cup {Expr(<<lo, Op("$lt", Num(2))>>) : lo \in LogicalOps}
    \cup {Expr(<<Op("$lt", Num(2)), lo>>) : lo \in LogicalOps}

FieldQueries == Shorthands \cup FieldExprs \cup LogicalExprs

Input(r, q, tb) == [row |-> r, query |-> q, table |-> tb]

\* a query on the field a of a row
FieldInputs ==
  {Input(Obj([a |-> v, b |-> Undef]), <<Field(<<"a">>, fq)>>, <<>>) :
     v \in DataValues, fq \in FieldQueries}

\* a query on b or on the dotted key b.c; b is missing, null, a number or an object
DottedInputs ==
  {Input(Obj([a |-> Num(1), b |-> w]), <<Field(p, fq)>>, <<>>) :
     w \in {Undef, Null, Num(1)} \cup {Obj([c |-> v]) : v \in {Undef, Null, Num(1)}},
     p \in {<<"b">>, <<"b", "c">>},
     fq \in Leaves \cup {Expr(<<Op("$exists", Bool(FALSE))>>)}}

\* the sub-queries that the lists of a top-level $and and $or are made of
ArgQueries ==
  {<<Field(<<"a">>, l)>> : l \in {Null, Num(1), Arr(<<>>), Expr(<<Op("$gt", Num(1))>>)}}
    \cup {<<>>, <<Logical("$or", <<>>)>>}

\* the sub-queries of a top-level $not
SubQueries ==
  ArgQueries \cup {<<Field(<<"a">>, l)>> : l \in Leaves} \cup {<<Logical("$and", <<>>)>>}

TopQueries ==
  {<<Logical("$not", sq)>> : sq \in SubQueries}
    \cup {<<Logical(k, s)>> : k \in {"$and", "$or"}, s \in SeqsUpTo(ArgQueries, MaxArgs)}
    \cup {<<Logical(k, <<sq>>), Field(<<"a">>, l)>> :
            k \in {"$and", "$or"}, sq \in ArgQueries, l \in Leaves}
    \cup {<<Field(<<"a">>, l), Logical(k, <<sq>>)>> :
            k \in {"$and", "$or"}, sq \in ArgQueries, l \in Leaves}

LogicalInputs ==
  {Input(Obj([a |-> v, b |-> Undef]), q, <<>>) : v \in DataValues, q \in TopQueries}

\* the parents: users 1 and 2
Users == {Num(1), Num(2)}

\* the child table: each post has an author (or none) and a score
PostTables ==
  SeqsUpTo({[author |-> a, score |-> s] : a \in Users \cup {Null}, s \in {Num(1), Num(2)}},
           MaxPosts)

\* the queries on a child row
ChildQueries ==
  {<<>>, <<Logical("$or", <<>>)>>, <<Field(<<"author">>, Null)>>,
   <<Field(<<"score">>, Num(1))>>, <<Field(<<"score">>, Expr(<<Op("$gt", Num(1))>>))>>}

\* include posts: the children of a parent, by id
Included(tb, u) ==
  SelectSeq([i \in 1..Len(tb) |-> Obj([id |-> Num(i), author |-> tb[i].author,
                                       score |-> tb[i].score])],
            LAMBDA p : p.props.author = u)

\* a relation operator on user.posts
RelationInputs ==
  {Input(Obj([id |-> u, posts |-> Arr(Included(tb, u))]),
         <<Field(<<"posts">>, Expr(<<Op(o, Sub(q))>>))>>, tb) :
     u \in Users, tb \in PostTables, o \in {"$some", "$none", "$every"},
     q \in ChildQueries}

Inputs == FieldInputs \cup DottedInputs \cup LogicalInputs \cup RelationInputs

QInit ==
  /\ TxInit
  /\ multipleStatements
  /\ \E in \in Inputs :
       /\ curRow = in.row
       /\ curQuery = in.query
       /\ postTable = in.table
  /\ verdict = "none"
  /\ fieldVerdict = "none"
  /\ curPlan = [t |-> "none"]
  /\ got = "none"
  /\ visited = <<>>
  /\ fieldVisited = <<>>
  /\ RIdle
  /\ MIdle
  /\ GIdle
  /\ EIdle

\* a query that is one top-level $and or $or
IsLogicalList(q) == Len(q) = 1 /\ q[1].key \in {"$and", "$or"}

\* a one-field query whose field expression is one $and or $or
IsLogicalField(q) ==
  /\ Len(q) = 1
  /\ q[1].key = "field"
  /\ q[1].val.t = "expr"
  /\ Len(q[1].val.ops) = 1
  /\ q[1].val.ops[1].key \in {"$and", "$or"}

\* executeQuery(row, query)
Evaluate ==
  /\ verdict = "none"
  /\ verdict' = B(executeQuery(curRow, curQuery))
  /\ visited' = IF IsLogicalList(curQuery)
                THEN QueryVisits(curQuery[1].key, curRow, curQuery[1].val.items,
                                 ReduceInit(curQuery[1].key), 1)
                ELSE <<>>
  /\ UNCHANGED <<curRow, curQuery, postTable, fieldVerdict, curPlan, got, fieldVisited>>
  /\ UNCHANGED <<txvars, rvars, mvars, gvars, evars>>

\* executeFieldQuery(value, getCell(row, key)) for the field of a one-field query
EvaluateField ==
  /\ fieldVerdict = "none"
  /\ Len(curQuery) = 1
  /\ curQuery[1].key = "field"
  /\ getCell(curRow, curQuery[1].path).t # "throw"
  /\ fieldVerdict' = executeFieldQuery(curQuery[1].val, getCell(curRow, curQuery[1].path))
  /\ fieldVisited' = IF IsLogicalField(curQuery)
                     THEN FieldVisits(curQuery[1].val.ops[1].key,
                                      curQuery[1].val.ops[1].val.items,
                                      getCell(curRow, curQuery[1].path),
                                      B(curQuery[1].val.ops[1].key = "$and"), 1)
                     ELSE <<>>
  /\ UNCHANGED <<curRow, curQuery, postTable, verdict, curPlan, got, visited>>
  /\ UNCHANGED <<txvars, rvars, mvars, gvars, evars>>

\* Builder.query(sel, query); the driver never sees a relation operator
Lower ==
  /\ curPlan.t = "none"
  /\ ~IsRelationQuery(curQuery)
  /\ curPlan' = BuilderQuery(curQuery)
  /\ UNCHANGED <<curRow, curQuery, postTable, verdict, fieldVerdict, got,
                 visited, fieldVisited>>
  /\ UNCHANGED <<txvars, rvars, mvars, gvars, evars>>

\* database.get('user', query) for a relation operator
Get ==
  /\ got = "none"
  /\ IsRelationQuery(curQuery)
  /\ got' = B(DatabaseGet(curRow, curQuery))
  /\ UNCHANGED <<curRow, curQuery, postTable, verdict, fieldVerdict, curPlan,
                 visited, fieldVisited>>
  /\ UNCHANGED <<txvars, rvars, mvars, gvars, evars>>

QNext ==
  \/ Evaluate
  \/ EvaluateField
  \/ Lower
  \/ Get

SpecQuery == QInit /\ [][QNext]_vars

(***************************************************************************)
(* The write cascade of the relation resolver, after spec.md section 4.6   *)
(* and the relation tests.  user.posts is oneToMany (post.author holds the *)
(* key of the user), post.tags is manyToMany through the association table *)
(* of post and tag, user.successor is oneToOne with user.predecessor as    *)
(* its reciprocal (the user row holds the key of its successor).           *)
(***************************************************************************)
Matches(sel, id) == sel = 0 \/ sel = id

\* the order in which one mutation applies the directives of a relation
CascadeOrder_ConnectFirst == <<"connect", "create", "set", "remove", "disconnect">>

CascadeOrder == <<"disconnect", "remove", "set", "create", "connect">>

\* the association row of a pair is upserted on its primary key
LinkRow_Insert(count) == IF count < 2 THEN count + 1 ELSE 2

LinkRow(count) == 1

\* user u becomes the predecessor of v: the row that pointed to v is cleared
\* and u's own pointer is overwritten
Link_KeepHolder(us, u, v) == [us EXCEPT ![u] = v]

Link(us, u, v) ==
  [w \in UserIds |-> IF w = u THEN v ELSE IF us[w] = v THEN 0 ELSE us[w]]

\* one directive d of field f in a mutation of parent u, addressing sel
ApplyDirective(db, d, f, u, sel) ==
  IF sel = -1 THEN db
  ELSE CASE f = "posts" ->
         [db EXCEPT !.posts =
            IF d = "create"
            THEN [@ EXCEPT ![sel] = IF @.exists THEN [@ EXCEPT !.author = u]
                                    ELSE [exists |-> TRUE, author |-> u, score |-> 0]]
            ELSE [p \in ChildIds |->
                    IF ~(@[p].exists /\ Matches(sel, p)) THEN @[p]
                    ELSE IF d = "connect" THEN [@[p] EXCEPT !.author = u]
                    ELSE IF @[p].author # u THEN @[p]
                    ELSE CASE d = "disconnect" -> [@[p] EXCEPT !.author = 0]
                           [] d = "remove" -> NoPost
                           [] d = "set" -> [@[p] EXCEPT !.score = 1]]]
       [] f = "tags" ->
         [db EXCEPT !.assoc =
            [pr \in ChildIds \X ChildIds |->
               IF ~(pr[1] = u /\ Matches(sel, pr[2])) THEN @[pr]
               ELSE CASE d = "disconnect" -> 0
                      [] d = "connect" -> LinkRow(@[pr])
                      [] OTHER -> @[pr]]]
       [] f = "successor" ->
         [db EXCEPT !.users =
            CASE d = "disconnect" ->
                   IF @[u] > 0 /\ Matches(sel, @[u]) THEN [@ EXCEPT ![u] = 0] ELSE @
              [] d = "create" -> Link(IF @[sel] = -1 THEN [@ EXCEPT ![sel] = 0] ELSE @, u, sel)
              [] d = "connect" -> IF @[sel] = -1 THEN @ ELSE Link(@, u, sel)
              [] OTHER -> @]
       [] f = "predecessor" ->
         [db EXCEPT !.users =
            CASE d = "disconnect" ->
                   [w \in UserIds |-> IF @[w] = u /\ Matches(sel, w) THEN 0 ELSE @[w]]
              [] d = "create" -> Link(IF @[sel] = -1 THEN [@ EXCEPT ![sel] = 0] ELSE @, sel, u)
              [] d = "connect" -> IF @[sel] = -1 THEN @ ELSE Link(@, sel, u)
              [] OTHER -> @]

\* the directives of payload pl on field f of parent u, applied in order
RECURSIVE Cascade(_, _, _, _, _)
Cascade(db, order, f, u, pl) ==
  IF order = <<>> THEN db
  ELSE Cascade(ApplyDirective(db, Head(order), f, u, pl[Head(order)]), Tail(order), f, u, pl)

\* the payloads of a field: on posts any combination of directives; on tags
\* $disconnect and $connect; on successor and predecessor one directive that
\* names a user, or $disconnect: {}
Payloads(f) ==
  CASE f = "posts" ->
         {[disconnect |-> a, remove |-> b, set |-> c, create |-> d, connect |-> e] :
            a \in -1..MaxChildren, b \in -1..MaxChildren, c \in {-1, 0},
            d \in {-1} \cup ChildIds, e \in -1..MaxChildren}
    [] f = "tags" ->
         {[NoPayload EXCEPT !.disconnect = a, !.connect = e] :
            a \in -1..MaxChildren, e \in -1..MaxChildren}
    [] OTHER ->
         {NoPayload, [NoPayload EXCEPT !.disconnect = 0]}
           \cup {[NoPayload EXCEPT ![d] = v] : d \in {"create", "connect"}, v \in UserIds}

\* the post tables a mutation of user.posts starts from
PostStates ==
  [ChildIds -> {NoPost} \cup {[exists |-> TRUE, author |-> a, score |-> 0] : a \in 0..2}]

\* the tables are set up for the mutations of one relation: the users and the
\* association table empty, the posts with any authors
RInit ==
  /\ TxInit
  /\ multipleStatements
  /\ QIdle
  /\ MIdle
  /\ GIdle
  /\ EIdle
  /\ relation \in {"posts", "tags", "successor"}
  /\ \E ps \in PostStates :
       tables = [EmptyTables EXCEPT !.posts = IF relation = "posts" THEN ps ELSE @]
  /\ before = EmptyTables
  /\ lastMut = [op |-> "none", field |-> "none", parent |-> 0, pl |-> NoPayload]

\* database.set(table, u, {[f]: pl}) for a payload pl, or database.create when
\* user u has no row
Mutate(f, u) ==
  /\ CASE relation = "posts" -> f = "posts" /\ u \in {1, 2} /\ lastMut.op = "none"
       [] relation = "tags" -> f = "tags" /\ u \in ChildIds
       [] relation = "successor" -> f \in {"successor", "predecessor"} /\ u \in UserIds
       [] OTHER -> FALSE
  /\ \E pl \in Payloads(f) :
       LET created == relation = "successor" /\ tables.users[u] = -1
           db == IF created THEN [tables EXCEPT !.users[u] = 0] ELSE tables IN
       /\ tables' = Cascade(db, CascadeOrder, f, u, pl)
       /\ lastMut' = [op |-> IF created THEN "create" ELSE "set",
                      field |-> f, parent |-> u, pl |-> pl]
  /\ before' = tables
  /\ UNCHANGED relation
  /\ UNCHANGED <<txvars, qvars, mvars, gvars, evars>>

\* database.remove('user', [v]): the rows that name v as successor are not touched
RemoveUser(v) ==
  /\ relation = "successor"
  /\ tables.users[v] # -1
  /\ tables' = [tables EXCEPT !.users[v] = -1]
  /\ before' = tables
  /\ lastMut' = [op |-> "remove", field |-> "none", parent |-> v, pl |-> NoPayload]
  /\ UNCHANGED relation
  /\ UNCHANGED <<txvars, qvars, mvars, gvars, evars>>

RNext ==
  \/ \E f \in {"posts", "tags", "successor", "predecessor"}, u \in UserIds \cup ChildIds :
       Mutate(f, u)
  \/ \E v \in UserIds : RemoveUser(v)

SpecRelation == RInit /\ [][RNext]_vars

(***************************************************************************)
(* The model registry, model.ts: Field.parse, Model.extend, checkIndex,    *)
(* resolveValue, format, parse and create.  A field source is a string     *)
(* shorthand or an object; an index is the list of its keys; a record is   *)
(* an object whose keys may be dotted.                                     *)
(***************************************************************************)
MaxDay == 1         \* a Date is day 0..MaxDay after the epoch, with a time of day

Date(day, time) == [t |-> "date", day |-> day, time |-> time]

\* key.split('.') on the keys that occur
Split(key) ==
  CASE key = "b.c" -> <<"b", "c">>
    [] key = "b.c.d" -> <<"b", "c", "d">>
    [] OTHER -> <<key>>

\* Field.parse: the initial value that a string shorthand gets from its type;
\* Str(0) is the empty string
TypeDefault(type) ==
  CASE type \in {"integer", "unsigned", "float", "double", "decimal"} -> Num(0)
    [] type \in {"char", "string", "text"} -> Str(0)
    [] type = "list" -> Arr(<<>>)
    [] type = "json" -> Obj(<<>>)
    [] OTHER -> Undef

\* Field.parse(source): an object is spread over {initial: null}, a string
\* shorthand gets the default of its type
FieldParse(source) ==
  [type |-> source.type,
   initial |-> IF source.form = "object" THEN Null ELSE TypeDefault(source.type),
   deprecated |-> FALSE]

\* checkIndex(index) returns without throwing
checkIndex_Unchecked(fs, index) == TRUE

checkIndex(fs, index) == \A i \in 1..Len(index) : fs[index[i]].type # "none"

\* resolveValue(key, value): a Date in a field of type time is moved to the epoch
resolveValue_AsIs(fs, key, value) == value

resolveValue(fs, key, value) ==
  IF isNullable(value) THEN value
  ELSE IF key \in FieldNames /\ fs[key].type = "time" THEN Date(0, value.time)
  ELSE value

\* format(source, false, prefix): the loop over the keys of source; the result
\* is the flat object, as a function of its keys.  A Date under an undeclared
\* key is an object without enumerable keys
RECURSIVE format(_, _, _, _)
format(fs, source, prefix, keys) ==
  IF keys = {} THEN <<>>
  ELSE LET k == CHOOSE x \in keys : TRUE
           key == prefix \o k
           value == source.props[k]
           flat == IF key \in FieldNames /\ fs[key].type # "none" THEN key :> value
                   ELSE IF value.t = "date" THEN <<>>
                   ELSE IF value.t # "object"
                        THEN IF \E f \in FieldNames :
                                  /\ fs[f].type # "none"
                                  /\ Len(Split(key)) > Len(Split(f))
                                  /\ SubSeq(Split(key), 1, Len(Split(f))) = Split(f)
                             THEN key :> value
                             ELSE <<>>
                        ELSE format(fs, value, key \o ".", DOMAIN value.props) IN
       flat @@ format(fs, source, prefix, keys \ {k})

\* parse(source): the object that the node at path `at` becomes
RECURSIVE parse(_, _, _)
parse(fs, source, at) ==
  LET below == {k \in DOMAIN source :
                  /\ Len(Split(k)) > Len(at)
                  /\ SubSeq(Split(k), 1, Len(at)) = at} IN
  Obj([s \in {Split(k)[Len(at) + 1] : k \in below} |->
         LET here == {k \in below : Split(k) = at \o <<s>>} IN
         IF here # {}
         THEN resolveValue(fs, CHOOSE k \in here : TRUE, source[CHOOSE k \in here : TRUE])
         ELSE parse(fs, source, at \o <<s>>)])

\* create(data): the initial values of the fields that are not deprecated, not
\* keys of the primary index and not nullable, overlaid by data and parsed
create_SeedsDeprecated(fs, pk, data) ==
  parse(fs, data.props @@ [k \in {f \in FieldNames : /\ fs[f].type # "none"
                                                     /\ f \notin {pk[i] : i \in 1..Len(pk)}
                                                     /\ ~isNullable(fs[f].initial)}
                             |-> fs[k].initial], <<>>)

create(fs, pk, data) ==
  parse(fs, data.props @@ [k \in {f \in FieldNames : /\ fs[f].type # "none"
                                                     /\ ~fs[f].deprecated
                                                     /\ f \notin {pk[i] : i \in 1..Len(pk)}
                                                     /\ ~isNullable(fs[f].initial)}
                             |-> fs[k].initial], <<>>)

\* the fields argument of extend: for each name no source, a string shorthand
\* or an object without initial
FieldArgs ==
  LET Short(ty) == [form |-> "string", type |-> ty]
      Object(ty) == [form |-> "object", type |-> ty]
      None == [form |-> "none", type |-> "none"] IN
  {("id" :> x) @@ ("a" :> y) @@ ("b.c" :> z) :
     x \in {None, Short("unsigned"), Short("primary")},
     y \in {None, Short("time"), Object("string")},
     z \in {None, Short("json"), Object("list")}}

\* the config argument of extend; callback marks the declared fields deprecated
Configs ==
  {[primary |-> p, autoInc |-> ai, unique |-> u, callback |-> FALSE] :
     p \in {[t |-> "undefined", keys |-> <<>>], [t |-> "string", keys |-> <<"a">>],
            [t |-> "array", keys |-> <<"id", "a">>]},
     ai \in BOOLEAN, u \in {{}, {<<"b.c">>}}}
    \cup {[primary |-> [t |-> "undefined", keys |-> <<>>], autoInc |-> FALSE,
           unique |-> {}, callback |-> TRUE]}

\* records handed to format and to create: id, a, b or b.c, and the key z that
\* no model declares
Records ==
  LET Pick(k, vs) == {<<>>} \cup {k :> v : v \in vs} IN
  {Obj(i @@ x @@ y @@ z) :
     i \in Pick("id", {Num(1)}),
     x \in Pick("a", {Null, Str(1)} \cup {Date(d, 1) : d \in 0..MaxDay}),
     y \in Pick("b", {Obj([c |-> Num(1)]), Obj([c |-> Obj([d |-> Num(1)])])})
             \cup Pick("b.c", {Num(2)}),
     z \in Pick("z", {Num(1)})}

\* the model is constructed; nothing else runs
MInit == TxInit /\ multipleStatements /\ QIdle /\ RIdle /\ MIdle /\ GIdle /\ EIdle

\* model.extend(arg, cfg)
Extend(arg, cfg) ==
  /\ outcome.op = "none"
  /\ LET primary1 == IF cfg.primary.t = "undefined" THEN primary ELSE cfg.primary
         autoInc1 == cfg.autoInc \/ autoInc
         unique1 == unique \cup cfg.unique
         fields1 == [k \in FieldNames |->
                       IF arg[k].form = "none" THEN fields[k]
                       ELSE [FieldParse(arg[k]) EXCEPT !.deprecated = cfg.callback]] IN
     /\ primary' = primary1
     /\ autoInc' = autoInc1
     /\ unique' = unique1
     /\ fields' = fields1
     /\ declared' = [k \in FieldNames |-> IF arg[k].form = "none" THEN declared[k] ELSE arg[k]]
     /\ threw' = \/ threw
                 \/ /\ primary1.t = "string"
                    /\ ~autoInc1
                    /\ fields1[primary1.keys[1]].type = "primary"
                 \/ ~checkIndex(fields1, primary1.keys)
                 \/ \E index \in unique1 : ~checkIndex(fields1, index)
  /\ extended' = TRUE
  /\ UNCHANGED outcome
  /\ UNCHANGED <<txvars, qvars, rvars, gvars, evars>>

\* model.create(data), once the extends have returned; a field of type time
\* holds a Date or null
Create(data) ==
  /\ outcome.op = "none"
  /\ extended /\ ~threw
  /\ ("a" \in DOMAIN data.props /\ fields["a"].type = "time") =>
       data.props["a"].t \in {"date", "null"}
  /\ outcome' = [op |-> "create", input |-> data, output |-> create(fields, primary.keys, data)]
  /\ UNCHANGED <<fields, primary, autoInc, unique, threw, extended, declared>>
  /\ UNCHANGED <<txvars, qvars, rvars, gvars, evars>>

\* model.parse(model.format(r, false))
FormatParse(r) ==
  /\ outcome.op = "none"
  /\ extended /\ ~threw
  /\ ("a" \in DOMAIN r.props /\ fields["a"].type = "time") => r.props["a"].t \in {"date", "null"}
  /\ outcome' = [op |-> "format", input |-> r,
                output |-> parse(fields, format(fields, r, "", DOMAIN r.props), <<>>)]
  /\ UNCHANGED <<fields, primary, autoInc, unique, threw, extended, declared>>
  /\ UNCHANGED <<txvars, qvars, rvars, gvars, evars>>

MNext ==
  \/ \E arg \in FieldArgs, cfg \in Configs : Extend(arg, cfg)
  \/ \E data \in Records : Create(data)
  \/ \E r \in Records : FormatParse(r)

SpecModel == MInit /\ [][MNext]_vars

(***************************************************************************)
(* MySQLDriver.prepare: the migration of deprecated fields.  prepare hands *)
(* its four hooks to Driver.migrate, which asks before(keys) whether a     *)
(* callback is due, runs the callback, calls after(keys) when it finished  *)
(* and error(e) when it failed, and calls finalize once all callbacks are  *)
(* through.                                                                *)
(***************************************************************************)
\* the deprecated fields callbacks are registered with
MigKeys == {"a", "b"}

\* Object.keys(fields) of an extend call that registers a callback
KeyLists == {<<"a">>, <<"b">>, <<"a", "b">>}

\* before: keys => keys.every(key => columns.some(info => info.COLUMN_NAME === key))
beforeHook(ks) == \A i \in 1..Len(ks) : ks[i] \in columns

\* after: keys => dropKeys.push(...keys)
afterHook(dk, ks) == dk \o ks

\* finalize: no statement without dropKeys, else ALTER TABLE .. DROP of each
finalizeHook(dk) == dk

\* prepare found the table (columns.length is not 0), altered it where needed
\* and calls this.migrate
GInit ==
  /\ TxInit /\ multipleStatements /\ QIdle /\ RIdle /\ MIdle /\ EIdle
  /\ columns \in {{"id"} \cup c : c \in SUBSET MigKeys}
  /\ \E n \in 1..MaxMigrations : migrations \in [1..n -> KeyLists]
  /\ mpc = [m \in DOMAIN migrations |-> "pending"]
  /\ dropKeys = <<>>
  /\ reported = {}
  /\ finalized = 0
  /\ dropStmt = <<>>

\* if (!hooks.before(keys)) return; the callback is started otherwise
MigrateBefore(m) ==
  /\ m \in DOMAIN mpc
  /\ mpc[m] = "pending"
  /\ mpc' = [mpc EXCEPT ![m] = IF beforeHook(migrations[m]) THEN "running" ELSE "skipped"]
  /\ UNCHANGED <<columns, migrations, dropKeys, reported, finalized, dropStmt>>
  /\ UNCHANGED <<txvars, qvars, rvars, mvars, evars>>

\* the callback settles: hooks.after(keys) when it fulfilled, hooks.error(e)
\* when it rejected
MigrateCallback(m, ok) ==
  /\ m \in DOMAIN mpc
  /\ mpc[m] = "running"
  /\ mpc' = [mpc EXCEPT ![m] = IF ok THEN "done" ELSE "failed"]
  /\ dropKeys' = IF ok THEN afterHook(dropKeys, migrations[m]) ELSE dropKeys
  /\ reported' = IF ok THEN reported ELSE reported \cup {m}
  /\ UNCHANGED <<columns, migrations, finalized, dropStmt>>
  /\ UNCHANGED <<txvars, qvars, rvars, mvars, evars>>

\* every callback is through: hooks.finalize()
MigrateFinalize ==
  /\ finalized = 0
  /\ \A m \in DOMAIN mpc : mpc[m] \in {"skipped", "done", "failed"}
  /\ finalized' = finalized + 1
  /\ dropStmt' = finalizeHook(dropKeys)
  /\ UNCHANGED <<columns, migrations, mpc, dropKeys, reported>>
  /\ UNCHANGED <<txvars, qvars, rvars, mvars, evars>>

GNext ==
  \/ \E m \in 1..MaxMigrations : MigrateBefore(m)
  \/ \E m \in 1..MaxMigrations, ok \in BOOLEAN : MigrateCallback(m, ok)
  \/ MigrateFinalize

SpecMigrate == GInit /\ [][GNext]_vars

(***************************************************************************)
(* Builder.eval of the MongoDB driver: the polymorphic operators $and,     *)
(* $or, $not, $xor and the reference term $.                               *)
(***************************************************************************)
\* a 64-bit integer in two's complement, as the set of its bits that are 1
LongBits == 0..63
Int32Bits == 0..31
Long(bits) == [t |-> "long", bits |-> bits]

\* Field.boolean and Field.number
FieldBoolean == {"boolean"}
FieldNumber == {"integer", "unsigned", "float", "double", "decimal"}

\* Type.fromTerm(value) of an expression node: value[kType] ?? fromField('expr')
fromTerm(nd) == IF nd.type = "none" THEN "expr" ELSE nd.type

\* evalOperators.$and, $or, $not, $xor: the branch taken on the type of
\* this.evalExpr and on the server version
evalOperators(nd, ver) ==
  LET type == fromTerm(nd) IN
  [k |-> IF type \in FieldBoolean THEN "logical"
         ELSE IF ver >= 7 THEN "bit"
         ELSE IF type \in FieldNumber THEN "function"
         ELSE "toLong",
   op |-> nd.op, args |-> nd.args]

\* what a bitwise operator of JS makes of an operand: ToInt32, a boolean
\* counting as 1 or 0; the result is sign-extended
ToInt32(v) ==
  IF v.t = "boolean" THEN (IF v.b THEN {0} ELSE {})
  ELSE LET low == v.bits \cap Int32Bits IN
       IF 31 \in low THEN low \cup (LongBits \ Int32Bits) ELSE low

\* the bitwise operation on bit sets
BitOp(op, xs) ==
  CASE op = "$and" -> xs[1] \cap xs[2]
    [] op = "$or" -> xs[1] \cup xs[2]
    [] op = "$xor" -> (xs[1] \ xs[2]) \cup (xs[2] \ xs[1])
    [] op = "$not" -> LongBits \ xs[1]

\* the server evaluates the emitted expression: $and/$or/$not/$ne on truth
\* values; $bitAnd/$bitOr/$bitXor/$bitNot on int and long only; the $function
\* bodies run as JS, on numbers (prev & curr) or on BigInt(string)
ServerEval(e) ==
  LET n == Len(e.args)
      longs == \A i \in 1..n : e.args[i].t = "long"
      truthy(v) == IF v.t = "boolean" THEN v.b ELSE v.bits # {}
  IN CASE e.k = "logical" ->
            Bool(CASE e.op = "$and" -> \A i \in 1..n : truthy(e.args[i])
                   [] e.op = "$or" -> \E i \in 1..n : truthy(e.args[i])
                   [] e.op = "$not" -> ~truthy(e.args[1])
                   [] e.op = "$xor" -> e.args[1] # e.args[2])
       [] e.k = "bit" ->
            IF longs THEN Long(BitOp(e.op, [i \in 1..n |-> e.args[i].bits])) ELSE Thrown
       [] e.k = "function" ->
            Long(BitOp(e.op, [i \in 1..n |-> ToInt32(e.args[i])]))
       [] e.k = "toLong" ->
            IF longs THEN Long(BitOp(e.op, [i \in 1..n |-> e.args[i].bits])) ELSE Thrown

\* the operands: true, false, 5, 6, 2^31, 2^32 + 5 and 2^32 + 6
BoolArgs == {Bool(TRUE), Bool(FALSE)}
LongArgs == {Long({0, 2}), Long({1, 2}), Long({31}), Long({0, 2, 32}), Long({1, 2, 32})}

\* the nodes handed to eval.  A node that Eval built carries its result type:
\* boolean over boolean arguments, the type of its arguments over integers.
\* A node without kType (type expr) can hold any arguments.
EvalNodes ==
  LET argLists(vals) == {<<x>> : x \in vals} \cup {<<x, y>> : x, y \in vals}
      opOf(xs) == IF Len(xs) = 1 THEN {"$not"} ELSE {"$and", "$or", "$xor"}
      node(ty, xs) == {[op |-> o, type |-> ty, args |-> xs] : o \in opOf(xs)}
  IN UNION ({node("boolean", xs) : xs \in argLists(BoolArgs)}
            \cup {node(ty, xs) : ty \in {"integer", "unsigned"}, xs \in argLists(LongArgs)}
            \cup {node("none", xs) : xs \in argLists(BoolArgs \cup LongArgs)})

\* the versions of the server on either side of the test version >= 7
Versions == {6, 7}

\* the refs of selections and the names of joined tables
Refs == {"r", "s"}
JoinNames == {"a", "b"}

\* evalOperators.$ on [ref, path], joinRoot being the first step of path: the
\* qualified name among this.tables, then among this.joinTables, then ref among
\* this.tables, then among this.refTables, else the throw
ResolveRef_CurrentFirst(sc, ra) ==
  IF <<ra[1], ra[2]>> \in sc.tables \/ <<ra[1]>> \in sc.tables
  THEN [k |-> "current", var |-> ""]
  ELSE IF <<ra[1], ra[2]>> \in DOMAIN sc.joinTables
  THEN [k |-> "join", var |-> sc.joinTables[<<ra[1], ra[2]>>]]
  ELSE IF <<ra[1]>> \in sc.refTables THEN [k |-> "outer", var |-> ra[1]]
  ELSE [k |-> "throw", var |-> ""]

ResolveRef(sc, ra) ==
  IF <<ra[1], ra[2]>> \in sc.tables THEN [k |-> "current", var |-> ""]
  ELSE IF <<ra[1], ra[2]>> \in DOMAIN sc.joinTables
  THEN [k |-> "join", var |-> sc.joinTables[<<ra[1], ra[2]>>]]
  ELSE IF <<ra[1]>> \in sc.tables THEN [k |-> "current", var |-> ""]
  ELSE IF <<ra[1]>> \in sc.refTables THEN [k |-> "outer", var |-> ra[1]]
  ELSE [k |-> "throw", var |-> ""]

\* createSubquery: the builder of a subquery of sel, its refTables the refTables
\* and tables of this one, its joinTables a copy
createSubquery(sc, ref) ==
  [tables |-> {<<ref>>}, joinTables |-> sc.joinTables,
   refTables |-> sc.refTables \cup sc.tables]

\* the driver is connected to a server of either version; no builder yet
EInit ==
  /\ TxInit /\ multipleStatements /\ QIdle /\ RIdle /\ MIdle /\ GIdle
  /\ evalExpr = [op |-> "none"]
  /\ version \in Versions
  /\ emitted = [k |-> "none"]
  /\ computed = [t |-> "none"]
  /\ scope = [tables |-> {}, joinTables |-> <<>>, refTables |-> {}]
  /\ refArg = <<>>
  /\ resolved = [k |-> "none"]

\* eval(expr) on a node of $and, $or, $not or $xor, in the builder of a plain
\* selection: transformEvalExpr sets this.evalExpr and calls the operator; the
\* server evaluates what it returned
EvalNode(nd) ==
  /\ scope.tables # {}
  /\ scope.joinTables = <<>>
  /\ scope.refTables = {}
  /\ evalExpr' = nd
  /\ emitted' = evalOperators(nd, version)
  /\ computed' = ServerEval(evalOperators(nd, version))
  /\ refArg' = <<>>
  /\ resolved' = [k |-> "none"]
  /\ UNCHANGED <<version, scope>>
  /\ UNCHANGED <<txvars, qvars, rvars, mvars, gvars>>

\* new Builder(driver, tables) for the selection ref; it has no evalExpr yet
NewBuilder(ref) ==
  /\ scope' = [tables |-> {<<ref>>}, joinTables |-> <<>>, refTables |-> {}]
  /\ refArg' = <<>>
  /\ resolved' = [k |-> "none"]
  /\ evalExpr' = [op |-> "none"]
  /\ emitted' = [k |-> "none"]
  /\ computed' = [t |-> "none"]
  /\ UNCHANGED version
  /\ UNCHANGED <<txvars, qvars, rvars, mvars, gvars>>

\* select of a join, at the table name that carries the having condition:
\* name joins this.tables, and this.joinTables maps it to the ref of the join
\* and the table joined before it to the ref of that table; no node of the
\* condition is lowered yet
JoinHaving(ref, name, prevRef) ==
  /\ <<ref>> \in scope.tables
  /\ prevRef # ref
  /\ scope' = [scope EXCEPT
                 !.tables = @ \cup {<<ref, name>>},
                 !.joinTables = [q \in DOMAIN @ \cup {<<ref, n>> : n \in JoinNames} |->
                                   IF q = <<ref, name>> THEN ref
                                   ELSE IF q[1] = ref THEN prevRef ELSE @[q]]]
  /\ refArg' = <<>>
  /\ resolved' = [k |-> "none"]
  /\ evalExpr' = [op |-> "none"]
  /\ emitted' = [k |-> "none"]
  /\ computed' = [t |-> "none"]
  /\ UNCHANGED version
  /\ UNCHANGED <<txvars, qvars, rvars, mvars, gvars>>

\* $exec: the subquery of selection ref gets a builder of its own
Subquery(ref) ==
  /\ scope.tables # {}
  /\ <<ref>> \notin scope.tables \cup scope.refTables
  /\ scope' = createSubquery(scope, ref)
  /\ refArg' = <<>>
  /\ resolved' = [k |-> "none"]
  /\ evalExpr' = [op |-> "none"]
  /\ emitted' = [k |-> "none"]
  /\ computed' = [t |-> "none"]
  /\ UNCHANGED version
  /\ UNCHANGED <<txvars, qvars, rvars, mvars, gvars>>

\* eval of $(ref, path); a throw leaves the builder as it is
Resolve(ra) ==
  /\ scope.tables # {}
  /\ evalExpr' = [op |-> "$", type |-> "none", args |-> ra]
  /\ emitted' = [k |-> "none"]
  /\ computed' = [t |-> "none"]
  /\ refArg' = ra
  /\ resolved' = ResolveRef(scope, ra)
  /\ UNCHANGED <<version, scope>>
  /\ UNCHANGED <<txvars, qvars, rvars, mvars, gvars>>

ENext ==
  \/ \E nd \in EvalNodes : EvalNode(nd)
  \/ \E ref \in Refs : NewBuilder(ref)
  \/ \E ref \in Refs, name \in JoinNames, prevRef \in Refs \cup {"t"} :
       JoinHaving(ref, name, prevRef)
  \/ \E ref \in Refs : Subquery(ref)
  \/ \E ra \in (Refs \cup {"t"}) \X JoinNames : Resolve(ra)

SpecEval == EInit /\ [][ENext]_vars

(***************************************************************************)
(* Claims about MySQLDriver.withTransaction.                               *)
(***************************************************************************)
\* the mutations the callback of transaction t issued through its scoped driver
MutationsOf(t) == {id \in 1..Len(issued) : issued[id].drv = t /\ issued[id].mut}

\* C1: once the callback of withTransaction has run, a fulfilled callback has
\* had commit issued once and rollback never, a rejected callback rollback once
\* and commit never, and on both paths the connection was released exactly once;
\* before the callback settles none of the three has happened.
C1_CommitOrRollbackThenRelease ==
  \A t \in Txs :
    /\ fnres[t] = "fulfilled" => commits[t] = 1 /\ rollbacks[t] = 0 /\ releases[t] = 1
    /\ fnres[t] = "rejected" => rollbacks[t] = 1 /\ commits[t] = 0 /\ releases[t] = 1
    /\ fnres[t] = "none" => commits[t] = 0 /\ rollbacks[t] = 0 /\ releases[t] = 0

\* both paths taken to their end, each in a transaction that had begun
C1_Witness ==
  \E t, u \in Txs :
    /\ beginOk[t] /\ fnres[t] = "fulfilled" /\ promise[t] = "resolved"
    /\ beginOk[u] /\ fnres[u] = "rejected" /\ promise[u] = "rejected"

\* C2: after withTransaction rejected because its callback failed, no mutation
\* the callback issued through the scoped driver is visible outside the
\* transaction, nor was one read by a statement of the unscoped driver.
C2_RejectedTxInvisible ==
  \A t \in Txs :
    promise[t] = "rejected" => MutationsOf(t) \cap (committed \cup seen) = {}

\* C3: a statement issued on the scoped driver is sent on the transaction's
\* connection, never on a pool connection and never through _queryTasks; a
\* statement of the unscoped driver is never sent on a connection that a
\* transaction holds at that moment.
C3_ScopedStatementsOnSession ==
  /\ \A s \in sent :
       LET d == issued[s.id].drv IN
       /\ d # Root => s.via = "session" /\ s.conn = txconn[d] /\ ~s.batched
       /\ d = Root => s.conn \notin s.held
  /\ \A i \in 1..Len(queryTasks) : issued[queryTasks[i]].drv = Root
  /\ \A i \in 1..Len(poolq) :
       poolq[i].k = "query" => \A id \in IdsOf(poolq[i].ids) : issued[id].drv = Root

\* a scoped statement was sent, and an unscoped one while a transaction held
\* its connection
C3_Witness ==
  \E s, r \in sent :
    /\ issued[s.id].drv # Root
    /\ issued[r.id].drv = Root /\ r.held # {}

\* C4: withTransaction called on the scoped driver of an outer transaction
\* acquires no further connection from the pool and runs on the outer
\* transaction's connection.
C4_NestedReusesConnection ==
  \A t \in Txs :
    txdrv[t] # Root =>
      /\ pc[t] # "getconn"
      /\ txconn[t] # NoConn => txconn[t] = txconn[txdrv[t]]

(***************************************************************************)
(* Claims about the evaluator, the MongoDB lowering and the relation       *)
(* operators.                                                              *)
(***************************************************************************)
\* C5: for every field expression built from the comparison, membership,
\* existence, regexp and logical operators and every row, the filter that
\* Builder.query produces selects the row exactly when executeQuery accepts it.
C5_MongoAgreesWithEvaluator ==
  (verdict # "none" /\ curPlan.t # "none") =>
    (Selects(curPlan, curRow) <=> verdict = "true")

\* C6: {$or: []} matches no row and {$and: []} matches every row in
\* executeQuery; Builder.query yields no plan for the empty $or and a filter
\* without constraints for the empty $and.
C6_EmptyOrAndEmptyAnd ==
  /\ curQuery = <<Logical("$or", <<>>)>> =>
       /\ verdict # "none" => verdict = "false"
       /\ curPlan.t # "none" => curPlan = NoPlan
  /\ curQuery = <<Logical("$and", <<>>)>> =>
       /\ verdict # "none" => verdict = "true"
       /\ curPlan.t # "none" => curPlan = Filter(<<>>)

\* the empty $or was evaluated on a row and lowered
C6_Witness ==
  /\ curQuery = <<Logical("$or", <<>>)>>
  /\ curRow.props.a = Num(1)
  /\ verdict = "false"
  /\ curPlan = NoPlan

\* C7: in executeFieldQuery, {$in: []} and the shorthand [] match no data
\* value and {$nin: []} matches every data value, null and undefined included.
C7_EmptyInAndEmptyNin ==
  (fieldVerdict # "none" /\ curQuery[1].path = <<"a">>) =>
    /\ curQuery[1].val \in {Expr(<<Op("$in", Arr(<<>>))>>), Arr(<<>>)} => fieldVerdict = "false"
    /\ curQuery[1].val = Expr(<<Op("$nin", Arr(<<>>))>>) => fieldVerdict = "true"

\* {$in: []} was applied to null
C7_Witness ==
  /\ curQuery = <<Field(<<"a">>, Expr(<<Op("$in", Arr(<<>>))>>))>>
  /\ curRow.props.a = Null
  /\ fieldVerdict = "false"

\* C8: for every row and key k, dotted keys with an absent intermediate object
\* included, executeQuery(row, {k: {$exists: true}}) is true iff the value at k
\* is not null, and with {$exists: false} iff the value at k is null or missing.
C8_ExistsByNullness ==
  \A b \in BOOLEAN :
    (/\ verdict # "none"
     /\ Len(curQuery) = 1
     /\ curQuery[1].key = "field"
     /\ curQuery[1].val = Expr(<<Op("$exists", Bool(b))>>)) =>
      LET p == curQuery[1].path
          top == curRow.props[p[1]]
          v == IF Len(p) = 1 THEN top
               ELSE IF top.t = "object" THEN top.props[p[2]]
               ELSE Undef
      IN (verdict = "true") <=> (b <=> ~isNullable(v))

\* C9: a row matches {rel: {$none: q}} iff it does not match {rel: {$some: q}},
\* in executeQuery and in database.get.
C9_NoneIsNotSome ==
  (IsRelationQuery(curQuery) /\ curQuery[1].val.ops[1].key = "$none") =>
    LET some == <<Field(<<"posts">>, Expr(<<Op("$some", curQuery[1].val.ops[1].val)>>))>> IN
    /\ verdict # "none" => ((verdict = "true") <=> ~executeQuery(curRow, some))
    /\ got # "none" => ((got = "true") <=> ~DatabaseGet(curRow, some))

\* C10: a parent whose child set is empty matches {rel: {$every: q}} for every
\* q; a parent with children matches iff each of its children satisfies q.
C10_EveryOverChildSet ==
  (/\ got # "none"
   /\ IsRelationQuery(curQuery)
   /\ curQuery[1].val.ops[1].key = "$every") =>
    LET q == curQuery[1].val.ops[1].val.entries
        children == curRow.props.posts.items
    IN (got = "true") <=> \A i \in 1..Len(children) : executeQuery(children[i], q)

\* a parent without posts, while others have posts, was returned for a child
\* query nothing satisfies
C10_Witness ==
  /\ IsRelationQuery(curQuery)
  /\ curQuery[1].val.ops[1] = Op("$every", Sub(<<Logical("$or", <<>>)>>))
  /\ curRow.props.posts.items = <<>>
  /\ postTable # <<>>
  /\ got = "true"

\* C11: the reduce of $and evaluates no sub-query that stands after a false
\* one, the reduce of $or none that stands after a true one, in executeQuery
\* and in executeFieldQuery alike; so a field query that would throw, standing
\* after the one that decides, is not reached and the result is the decided one
C11_ShortCircuit ==
  /\ (verdict # "none" /\ IsLogicalList(curQuery)) =>
       LET qs == curQuery[1].val.items
           stop == curQuery[1].key = "$or" IN
       \A n \in 1..Len(visited) : \A i \in 1..(visited[n] - 1) :
         executeQuery(curRow, qs[i]) # stop
  /\ (fieldVerdict # "none" /\ IsLogicalField(curQuery)) =>
       LET qs == curQuery[1].val.ops[1].val.items
           data == getCell(curRow, curQuery[1].path)
           stop == B(curQuery[1].val.ops[1].key = "$or") IN
       /\ \A n \in 1..Len(fieldVisited) : \A i \in 1..(fieldVisited[n] - 1) :
            executeFieldQuery(qs[i], data) = Neg(stop)
       /\ (\E i \in 1..Len(qs) :
              /\ executeFieldQuery(qs[i], data) = stop
              /\ \A h \in 1..(i - 1) : executeFieldQuery(qs[h], data) = Neg(stop))
            => fieldVerdict = stop

\* a field-level $and whose first field query is false and whose second would
\* throw: only the first was evaluated and the result is false
C11_Witness ==
  /\ IsLogicalField(curQuery)
  /\ curQuery[1].val.ops[1].key = "$and"
  /\ Len(curQuery[1].val.ops[1].val.items) = 2
  /\ executeFieldQuery(curQuery[1].val.ops[1].val.items[2],
                       getCell(curRow, curQuery[1].path)) = "throw"
  /\ fieldVerdict = "false"
  /\ fieldVisited = <<1>>

(***************************************************************************)
(* Claims about the write cascade of the relation resolver.                *)
(***************************************************************************)
\* C12: one mutation applies the directives of a relation field in the order
\* disconnects, removes, sets on existing children, creates and upserts,
\* connects; so a post named by $connect is linked to the parent afterwards,
\* also when the $disconnect of the same payload matched it
C12_CascadeOrder ==
  lastMut.op \in {"set", "create"} =>
    LET f == lastMut.field
        u == lastMut.parent
        pl == lastMut.pl
        db0 == IF lastMut.op = "create" THEN [before EXCEPT !.users[u] = 0] ELSE before
        db1 == ApplyDirective(db0, "disconnect", f, u, pl.disconnect)
        db2 == ApplyDirective(db1, "remove", f, u, pl.remove)
        db3 == ApplyDirective(db2, "set", f, u, pl.set)
        db4 == ApplyDirective(db3, "create", f, u, pl.create)
        db5 == ApplyDirective(db4, "connect", f, u, pl.connect) IN
    /\ tables = db5
    /\ (f = "posts" /\ pl.connect # -1) =>
         \A p \in ChildIds :
           /\ (tables.posts[p].exists /\ Matches(pl.connect, p)) => tables.posts[p].author = u
           /\ (pl.remove = -1 /\ before.posts[p].exists /\ Matches(pl.connect, p)) =>
                tables.posts[p].exists

\* {$disconnect: {}, $connect: {id2: p}} on a user who had post p and another
\* post: afterwards p is the user's post and the other post has no author
C12_Witness ==
  /\ lastMut.field = "posts"
  /\ lastMut.pl.disconnect = 0
  /\ lastMut.pl.connect > 0
  /\ \A p \in ChildIds : before.posts[p].exists /\ before.posts[p].author = lastMut.parent
  /\ tables.posts[lastMut.pl.connect].author = lastMut.parent
  /\ \E p \in ChildIds : tables.posts[p].exists /\ tables.posts[p].author = 0

\* C13: after any sequence of $connect and $disconnect on post.tags the
\* association table holds at most one row for each pair of post and tag, and
\* a $connect or a $disconnect issued a second time changes nothing
C13_AssocAtMostOnce ==
  relation = "tags" =>
    /\ \A pr \in ChildIds \X ChildIds : tables.assoc[pr] <= 1
    /\ \A p \in ChildIds, sel \in 0..MaxChildren, d \in {"connect", "disconnect"} :
         LET pl == [NoPayload EXCEPT ![d] = sel]
             once == Cascade(tables, CascadeOrder, "tags", p, pl) IN
         Cascade(once, CascadeOrder, "tags", p, pl) = once

\* $connect: {} on a post that had every tag already: each pair still has one row
C13_Witness ==
  /\ lastMut.field = "tags"
  /\ lastMut.pl.connect = 0
  /\ lastMut.pl.disconnect = -1
  /\ \A t \in ChildIds : before.assoc[<<lastMut.parent, t>>] = 1
  /\ \A t \in ChildIds : tables.assoc[<<lastMut.parent, t>>] = 1

\* C14: u.successor is v exactly when v.predecessor is u, and no two users
\* have the same successor; after u was connected to v no other row points to
\* v and u no longer points to its previous target
C14_ReciprocalOneToOne ==
  relation = "successor" =>
    LET us == tables.users
        SuccessorOf(u) == IF us[u] > 0 /\ us[us[u]] # -1 THEN us[u] ELSE 0
        PredecessorsOf(v) == {u \in UserIds : us[u] = v}
        pl == lastMut.pl
        u0 == IF lastMut.field = "predecessor" THEN pl.connect ELSE lastMut.parent
        v0 == IF lastMut.field = "predecessor" THEN lastMut.parent ELSE pl.connect IN
    /\ \A u, v \in UserIds :
         us[v] # -1 => (SuccessorOf(u) = v <=> u \in PredecessorsOf(v))
    /\ \A u, w \in UserIds : (u # w /\ us[u] > 0) => us[u] # us[w]
    /\ (pl.connect > 0 /\ (before.users[pl.connect] # -1 \/ pl.connect = lastMut.parent)) =>
         /\ us[u0] = v0
         /\ PredecessorsOf(v0) = {u0}
         /\ \A t \in UserIds \ {v0} : u0 \notin PredecessorsOf(t)

\* user u pointed to t and user w to v; u is connected to v: now only u points
\* to v, and t has no predecessor
C14_Witness ==
  /\ lastMut.field = "successor"
  /\ lastMut.pl.connect > 0
  /\ before.users[lastMut.parent] > 0
  /\ before.users[lastMut.parent] # lastMut.pl.connect
  /\ \E w \in UserIds \ {lastMut.parent} :
       /\ before.users[w] = lastMut.pl.connect
       /\ tables.users[w] = 0
  /\ tables.users[lastMut.parent] = lastMut.pl.connect

(***************************************************************************)
(* Claims about the model registry.                                        *)
(***************************************************************************)
\* C15: parse(format(r, false)) holds, for every declared field, the value
\* that r holds for it (under the dotted key or under the nested path), with
\* the Date of a field of type time moved to the epoch, and holds nothing
\* outside the declared fields
C15_RoundTripUpToTime ==
  outcome.op = "format" =>
    LET At(o, f) == LET c == IF f \in DOMAIN o.props THEN o.props[f]
                             ELSE getCell(o, Split(f)) IN
                    IF c.t = "throw" THEN Undef ELSE c
        names == {f \in FieldNames : fields[f].type # "none"} IN
    /\ \A f \in names :
         At(outcome.output, f) =
           IF fields[f].type = "time" /\ At(outcome.input, f).t = "date"
           THEN Date(0, At(outcome.input, f).time)
           ELSE At(outcome.input, f)
    /\ \A k \in DOMAIN outcome.output.props : \E f \in names : Split(f)[1] = k

\* a record with a Date after the epoch in the time field a, a nested b.c and
\* the undeclared z: the round trip keeps b.c, drops z and moves a to the epoch
C15_Witness ==
  /\ outcome.op = "format"
  /\ fields["a"].type = "time"
  /\ fields["b.c"].type # "none"
  /\ DOMAIN outcome.input.props = {"id", "a", "b", "z"}
  /\ outcome.input.props["a"] = Date(1, 1)
  /\ outcome.output.props["a"] = Date(0, 1)
  /\ outcome.output.props["b"] = outcome.input.props["b"]
  /\ "z" \notin DOMAIN outcome.output.props

\* C15 as stated: parse(format(r, false)) holds for every declared field
\* exactly the value that r holds for it, and nothing else
C15_RoundTripExact ==
  outcome.op = "format" =>
    LET At(o, f) == LET c == IF f \in DOMAIN o.props THEN o.props[f]
                             ELSE getCell(o, Split(f)) IN
                    IF c.t = "throw" THEN Undef ELSE c
        names == {f \in FieldNames : fields[f].type # "none"} IN
    /\ \A f \in names : At(outcome.output, f) = At(outcome.input, f)
    /\ \A k \in DOMAIN outcome.output.props : \E f \in names : Split(f)[1] = k

\* C16: create(data) holds the initial value of exactly the declared fields
\* whose initial is not null, which are no key of the primary index and which
\* are not deprecated, overlaid by data; create() has exactly those fields
C16_CreateSeedsLiveFields ==
  outcome.op = "create" =>
    LET At(o, f) == LET c == IF f \in DOMAIN o.props THEN o.props[f]
                             ELSE getCell(o, Split(f)) IN
                    IF c.t = "throw" THEN Undef ELSE c
        seeded == {f \in FieldNames : /\ fields[f].type # "none"
                                      /\ ~isNullable(fields[f].initial)
                                      /\ f \notin {primary.keys[i] : i \in 1..Len(primary.keys)}
                                      /\ ~fields[f].deprecated} IN
    /\ \A f \in FieldNames :
         At(outcome.output, f) =
           IF At(outcome.input, f).t # "undefined"
           THEN resolveValue(fields, f, At(outcome.input, f))
           ELSE IF f \in seeded THEN fields[f].initial ELSE Undef
    /\ outcome.input = Obj(<<>>) =>
         {f \in FieldNames : At(outcome.output, f).t # "undefined"} = seeded

\* create() on a model whose field id is live, whose field b.c is deprecated
\* with the initial value {} and whose primary key is a: only id is set
C16_Witness ==
  /\ outcome.op = "create"
  /\ outcome.input = Obj(<<>>)
  /\ primary.keys = <<"a">>
  /\ fields["b.c"].deprecated
  /\ fields["b.c"].initial = Obj(<<>>)
  /\ ~fields["id"].deprecated
  /\ outcome.output = Obj([id |-> Num(0)])

\* C16 as stated: create(data) holds the initial value of exactly the declared
\* fields whose initial is not null and which are no key of the primary index
C16_CreateSeedsDeclaredFields ==
  outcome.op = "create" =>
    LET At(o, f) == LET c == IF f \in DOMAIN o.props THEN o.props[f]
                             ELSE getCell(o, Split(f)) IN
                    IF c.t = "throw" THEN Undef ELSE c
        seeded == {f \in FieldNames : /\ fields[f].type # "none"
                                      /\ ~isNullable(fields[f].initial)
                                      /\ f \notin {primary.keys[i] : i \in 1..Len(primary.keys)}} IN
    /\ \A f \in FieldNames :
         At(outcome.output, f) =
           IF At(outcome.input, f).t # "undefined"
           THEN resolveValue(fields, f, At(outcome.input, f))
           ELSE IF f \in seeded THEN fields[f].initial ELSE Undef
    /\ outcome.input = Obj(<<>>) =>
         {f \in FieldNames : At(outcome.output, f).t # "undefined"} = seeded

\* C17: once every call of extend has returned normally, each key of the
\* primary index and of every unique index is a declared field; a call that
\* would leave an undeclared key in an index throws
C17_IndexesDeclared ==
  (extended /\ ~threw) =>
    /\ \A i \in 1..Len(primary.keys) : fields[primary.keys[i]].type # "none"
    /\ \A index \in unique : \A i \in 1..Len(index) : fields[index[i]].type # "none"

\* extends have returned normally on a model with the composite primary key
\* (id, a) and the unique index b.c
C17_Witness ==
  /\ extended
  /\ ~threw
  /\ primary = [t |-> "array", keys |-> <<"id", "a">>]
  /\ unique = {<<"b.c">>}
  /\ \A f \in FieldNames : fields[f].type # "none"

\* C18 as stated: once every call of extend has returned normally, no field
\* has the type primary while autoInc is false
C18_PrimaryTypeNeedsAutoInc ==
  (extended /\ ~threw) =>
    \A f \in FieldNames : fields[f].type = "primary" => autoInc

\* C19 as stated, for the calls of extend that returned normally: a model
\* whose primary key is composite has autoInc false
C19_CompositeDisablesAutoInc ==
  (extended /\ ~threw /\ primary.t = "array") => ~autoInc

\* C20 as stated: a field declared without an explicit initial, by a string
\* shorthand or by an object, has the initial value 0 when its type is
\* numeric, '' when it is a string type, [] for list and {} for json
C20_InitialDefaultsByType ==
  \A f \in FieldNames :
    declared[f].form \in {"string", "object"} =>
      /\ fields[f].type \in {"integer", "unsigned", "float", "double", "decimal"} =>
           fields[f].initial = Num(0)
      /\ fields[f].type \in {"char", "string", "text"} => fields[f].initial = Str(0)
      /\ fields[f].type = "list" => fields[f].initial = Arr(<<>>)
      /\ fields[f].type = "json" => fields[f].initial = Obj(<<>>)

(***************************************************************************)
(* Further claims about the portable evaluator and the MongoDB lowering.   *)
(***************************************************************************)
\* C30 as stated: executeQuery(row, {$not: {k: q}}) is
\* executeQuery(row, {k: {$not: q}}), for every row, key k and field query q
C30_NotAgreesAcrossLevels ==
  (/\ verdict # "none"
   /\ Len(curQuery) = 1
   /\ curQuery[1].key = "$not"
   /\ Len(curQuery[1].val.entries) = 1
   /\ curQuery[1].val.entries[1].key = "field") =>
    LET e == curQuery[1].val.entries[1] IN
    verdict = B(executeQuery(curRow, <<Field(e.path, Expr(<<Op("$not", e.val)>>))>>))

\* C25 as stated: every $and, $or and $nor of a filter that Builder.query
\* emits is a non-empty array of filter documents, at every depth
C25_LogicalArraysNonEmpty ==
  curPlan.t = "filter" => MongoValid(curPlan)

(***************************************************************************)
(* Further claims about Model.extend.                                      *)
(***************************************************************************)
\* C29 as stated: a call of extend that throws leaves fields, primary,
\* autoInc and unique as they were before the call
C29_ThrowingExtendLeavesModel ==
  [][(~threw /\ threw') =>
       (fields' = fields /\ primary' = primary /\ autoInc' = autoInc /\ unique' = unique)]_vars

(***************************************************************************)
(* Further claims about MySQLDriver.withTransaction and MySQLDriver.queue. *)
(***************************************************************************)
\* The pool answers every request, each connection answers every command, the
\* nextTick queue runs, and the callback of a transaction settles.
SpecLive ==
  /\ Spec
  /\ WF_vars(PoolGrant \/ GetConnectionErr)
  /\ WF_vars(FlushTasks)
  /\ \A c \in Conns : WF_vars(ConnExec(c))
  /\ \A t \in Txs : WF_vars(\E ok \in BOOLEAN : FnReturn(t, ok))

\* C27 as stated: the promise that withTransaction returned settles at last,
\* whichever way the pool, begin, the callback and commit turn out
C27_PromiseSettles ==
  \A t \in Txs : (pc[t] # "idle") ~> (promise[t] # "pending")

\* C28 as stated: while the commit or the rollback of a transaction is in
\* flight on its connection, the connection has not been released and is not
\* among the connections the pool hands out
C28_ReleaseAfterCompletion ==
  \A t \in Txs :
    pc[t] = "settling" =>
      /\ releases[t] = 0
      /\ \A i \in 1..Len(free) : free[i] # txconn[t]

\* C26: outside a transaction and with batching on, whatever the interleaving
\* of queue calls, ticks and flushes in flight: every queued task is in one
\* batch or still in _queryTasks, once; a flush is scheduled for whatever
\* _queryTasks holds; batches keep the order of the queue calls; a task is
\* settled at most once, with its batch; the i-th task of a batch that
\* succeeded is resolved with the result of its own statement and every task of
\* a batch that failed is rejected; and when nothing is in flight any more
\* every queued task is settled.
C26_QueuedTaskSettledOnce ==
  LET queued == IF multipleStatements
                THEN {id \in 1..Len(issued) : issued[id].drv = Root /\ ~issued[id].mut}
                ELSE {}
      places(id) == {<<b, i>> \in (1..Len(batches)) \X (1..MaxCalls) :
                       i <= Len(batches[b]) /\ batches[b][i] = id}
      waits(id) == {i \in 1..Len(queryTasks) : queryTasks[i] = id}
      calls(id) == {k \in 1..Len(settled) : settled[k].id = id}
      quiet == /\ ticks = 0
               /\ poolq = <<>>
               /\ \A c \in Conns : cmdq[c] = <<>>
  IN
  /\ \A id \in queued : Cardinality(places(id)) + Cardinality(waits(id)) = 1
  /\ \A b \in 1..Len(batches) : IdsOf(batches[b]) \subseteq queued /\ batches[b] # <<>>
  /\ IdsOf(queryTasks) \subseteq queued
  /\ queryTasks # <<>> => ticks > 0
  /\ \A b \in 1..Len(batches) :
       /\ \A i, j \in 1..Len(batches[b]) : i < j => batches[b][i] < batches[b][j]
       /\ \A a \in 1..Len(batches) :
            a < b => \A x \in IdsOf(batches[a]), y \in IdsOf(batches[b]) : x < y
       /\ \A x \in IdsOf(batches[b]), y \in IdsOf(queryTasks) : x < y
       /\ \A x, y \in IdsOf(batches[b]) :
            /\ calls(x) = {} <=> calls(y) = {}
            /\ \A k \in calls(x), l \in calls(y) : settled[k].how = settled[l].how
  /\ \A i, j \in 1..Len(queryTasks) : i < j => queryTasks[i] < queryTasks[j]
  /\ \A id \in queued : Cardinality(calls(id)) <= 1
  /\ \A k \in 1..Len(settled) :
       /\ places(settled[k].id) # {}
       /\ settled[k].how = "resolve" => settled[k].val = [t |-> "result", of |-> settled[k].id]
  /\ quiet => \A id \in queued : calls(id) # {}

\* two tasks were queued while the flush of a first was awaiting its query; their
\* batch was answered first and resolved, the first batch failed
C26_Witness ==
  /\ Len(batches) = 2
  /\ Len(batches[2]) = 2
  /\ Len(settled) = 3
  /\ settled[1].id = batches[2][1] /\ settled[1].how = "resolve"
  /\ settled[2].id = batches[2][2] /\ settled[2].how = "resolve"
  /\ settled[3].id = batches[1][1] /\ settled[3].how = "reject"

(***************************************************************************)
(* Claims about the migration of MySQLDriver.prepare.                      *)
(***************************************************************************)
\* C24 as stated: a callback that failed is reported through the error hook
\* and none of its fields is among the columns finalize drops; finalize runs
\* at most once, after every callback is through (a failed one has stopped no
\* other), and drops exactly the fields of the callbacks whose before check
\* passed and which completed without error.
C24_FailedFieldsNeverDropped ==
  LET done == {m \in DOMAIN mpc : mpc[m] = "done"}
      failed == {m \in DOMAIN mpc : mpc[m] = "failed"}
  IN
  /\ reported = failed
  /\ \A m \in done \cup failed : beforeHook(migrations[m])
  /\ finalized <= 1
  /\ finalized = 1 =>
       /\ \A m \in DOMAIN mpc : mpc[m] \in {"skipped", "done", "failed"}
       /\ IdsOf(dropStmt) = UNION {IdsOf(migrations[m]) : m \in done}
       /\ \A m \in failed : IdsOf(migrations[m]) \cap IdsOf(dropStmt) = {}

(***************************************************************************)
(* Claims about Builder.eval of the MongoDB driver.                        *)
(***************************************************************************)
\* C21 as stated: $and, $or, $not and $xor are lowered to the logical
\* operator exactly when every argument is boolean, whether the node carries a
\* type or not and whatever the server version; $and on 5 and 6 gives 4 and on
\* true and false gives false
C21_LogicalIffBooleanArgs ==
  emitted.k # "none" =>
    /\ emitted.k = "logical" <=>
         \A i \in 1..Len(evalExpr.args) : evalExpr.args[i].t = "boolean"
    /\ (evalExpr.op = "$and" /\ evalExpr.args = <<Long({0, 2}), Long({1, 2})>>) =>
         computed = Long({2})
    /\ (evalExpr.op = "$and" /\ evalExpr.args = <<Bool(TRUE), Bool(FALSE)>>) =>
         computed = Bool(FALSE)

\* C22 as stated: on a server older than version 7 the bitwise $and, $or, $xor
\* and $not of a node of integer type compute the bitwise operation on all 64
\* bits of their operands
C22_BitwiseExactOn64Bits ==
  (emitted.k # "none" /\ version < 7 /\ evalExpr.type \in {"integer", "unsigned"}) =>
    computed = Long(BitOp(evalExpr.op,
                          [i \in 1..Len(evalExpr.args) |-> evalExpr.args[i].bits]))

\* C23: $(ref, path) resolves against the current scope when the qualified
\* name ref.joinRoot is one of its tables; else against the join-table
\* environment when that holds the qualified name, to the variable recorded
\* there; else against the current scope when ref is one of its tables; else
\* against the outer refs when ref is one of them; and else the lowering throws.
C23_ResolutionOrder ==
  resolved.k # "none" =>
    LET q == <<refArg[1], refArg[2]>>
        inTables == q \in scope.tables
        inJoin == q \in DOMAIN scope.joinTables
        isTable == <<refArg[1]>> \in scope.tables
        isOuter == <<refArg[1]>> \in scope.refTables
    IN
    /\ inTables => resolved.k = "current"
    /\ (~inTables /\ inJoin) => resolved = [k |-> "join", var |-> scope.joinTables[q]]
    /\ (~inTables /\ ~inJoin /\ isTable) => resolved.k = "current"
    /\ (~inTables /\ ~inJoin /\ ~isTable /\ isOuter) =>
         resolved = [k |-> "outer", var |-> refArg[1]]
    /\ (~inTables /\ ~inJoin /\ ~isTable /\ ~isOuter) => resolved.k = "throw"

\* in the having condition of a join, the reference to the table joined before
\* resolved to the variable of that table although its ref is a table of the
\* current scope
C23_Witness ==
  /\ resolved.k = "join"
  /\ <<refArg[1]>> \in scope.tables
  /\ <<refArg[1], refArg[2]>> \notin scope.tables
  /\ resolved.var # refArg[1]

\* C23 as stated: the current scope's tables first, then the join-table
\* environment, then the outer refs
C23_CurrentScopeFirst ==
  resolved.k # "none" =>
    LET q == <<refArg[1], refArg[2]>>
        inCurrent == q \in scope.tables \/ <<refArg[1]>> \in scope.tables
        inJoin == q \in DOMAIN scope.joinTables
        isOuter == <<refArg[1]>> \in scope.refTables
    IN resolved.k = IF inCurrent THEN "current"
                    ELSE IF inJoin THEN "join"
                    ELSE IF isOuter THEN "outer" ELSE "throw"
====
